---- MODULE Spec2Model ----
(***************************************************************************)
(* Transcript summarisation backend: the process tracker                   *)
(* (summary_processes), the submit / poll endpoints and the background     *)
(* pipeline (pre-flight, windowing, per-chunk provider calls, aggregation, *)
(* terminal status update).                                                *)
(*                                                                         *)
(* Python None is the empty sequence and an optional value x is <<x>>.     *)
(* A transcript text is modelled by its length and by whether it consists  *)
(* of whitespace only; a chunk is the pair of offsets it covers.           *)
(* A message is its text tag, its length and the number of line feeds and  *)
(* carriage returns in it.                                                 *)
(***************************************************************************)
EXTENDS Integers, Sequences, FiniteSets, TLC

VARIABLES
    started,            \* startup_event has run
    dbInit,             \* the DatabaseManager handles whose initialize() ran
    sessions,           \* sessions collection: id -> optional document (title)
    transcript_chunks,  \* transcript_chunks collection: id -> optional document
    summary_processes,  \* summary_processes collection: id -> optional record
    settings,           \* settings document: providers with a non-empty key
    jobs,               \* background tasks: slot -> task state
    active_clients,     \* TranscriptProcessor.active_clients
    call,               \* a function applied on its own: arguments and result
    stopped             \* shutdown_event has run

vars == <<started, dbInit, sessions, transcript_chunks, summary_processes,
          settings, jobs, active_clients, call, stopped>>

-----------------------------------------------------------------------------
(* Bounds and input sets *)

MaxTextUnits == 2

JobIds == {1, 2}

Ids == {"s1", "s2"}

HostedProviders == {"claude", "groq", "openai"}

SupportedProviders == HostedProviders \cup {"ollama"}

RequestProviders == SupportedProviders \cup {"gemini"}

None == <<>>

Some(x) == <<x>>

Min(a, b) == IF a < b THEN a ELSE b

Max(a, b) == IF a > b THEN a ELSE b

-----------------------------------------------------------------------------
(* Strings that the code inspects character by character *)

UpperChars == <<"A","B","C","D","E","F","G","H","I","J","K","L","M",
                "N","O","P","Q","R","S","T","U","V","W","X","Y","Z">>

LowerChars == <<"a","b","c","d","e","f","g","h","i","j","k","l","m",
                "n","o","p","q","r","s","t","u","v","w","x","y","z">>

lower_char(c) ==
    IF \E k \in 1..Len(UpperChars) : UpperChars[k] = c
    THEN LowerChars[CHOOSE k \in 1..Len(UpperChars) : UpperChars[k] = c]
    ELSE c

lower(s) == [k \in 1..Len(s) |-> lower_char(s[k])]

startswith(s, p) == Len(s) >= Len(p) /\ SubSeq(s, 1, Len(p)) = p

SessionIds == {"s1"}

KeyProviders == {"openai"}

HostedModelName == <<"g","p","t">>

-----------------------------------------------------------------------------
(* Messages and exceptions *)

Msg(text, len) == [text |-> <<text>>, len |-> len, lf |-> 0, cr |-> 0]

\* an exception text coming from a driver or provider: long, with line breaks
DriverMsg == [text |-> <<"driver error">>, len |-> 1200, lf |-> 2, cr |-> 1]

Raise(cls, msg) == [cls |-> cls, msg |-> msg]

\* f"Processing error: {str(e)}"
processing_error(msg) ==
    [text |-> <<"Processing error: ">> \o msg.text, len |-> 18 + msg.len,
     lf |-> msg.lf, cr |-> msg.cr]

\* variant that stores the text as it is handed in
sanitize_error_raw(msg) ==
    msg

\* str(error).replace("\n", " ").replace("\r", "")[:1000]
sanitize_error(msg) ==
    [text |-> msg.text, len |-> Min(msg.len - msg.cr, 1000), lf |-> 0, cr |-> 0]

status_upper(s) ==
    CASE s = "completed" -> "COMPLETED"
      [] s = "failed" -> "FAILED"
      [] s = "pending" -> "PENDING"
      [] OTHER -> s

status_lower(s) ==
    CASE s = "PENDING" -> "pending"
      [] s = "COMPLETED" -> "completed"
      [] s = "FAILED" -> "failed"
      [] OTHER -> s

\* a JSON text is the value it encodes, wrapped once per encoding
json_dumps(x) == [json |-> x]

\* isinstance(x, str), for the values handed to update_process as result
is_str(x) == "json" \in DOMAIN x

-----------------------------------------------------------------------------
(* DatabaseManager: process operations *)

Absent == None

NewProcess ==
    [status |-> None, result |-> None, error |-> None,
     end_time |-> None, chunk_count |-> None,
     created_at |-> None, start_time |-> None]

\* the instant every time stamp of a running application is taken at: its
\* clock is not advanced
Epoch == 0

\* variant that writes on insert only
create_process_insert_only(procs, session_id, now) ==
    IF procs[session_id] # Absent THEN procs
    ELSE [procs EXCEPT ![session_id] =
            Some([NewProcess EXCEPT !.status = Some("PENDING"),
                                    !.start_time = Some(now),
                                    !.created_at = Some(now)])]

\* variant that replaces the whole document
create_process_replace(procs, session_id, now) ==
    [procs EXCEPT ![session_id] =
        Some([NewProcess EXCEPT !.status = Some("PENDING"),
                                !.start_time = Some(now),
                                !.created_at = Some(now)])]

\* update_one({"session_id": id}, {"$set": ..., "$setOnInsert": ...}, upsert=True)
\* at the instant now: created_at is set on insert only
create_process(procs, session_id, now) ==
    LET old == IF procs[session_id] = Absent
               THEN [NewProcess EXCEPT !.created_at = Some(now)]
               ELSE procs[session_id][1]
    IN [procs EXCEPT ![session_id] =
            Some([old EXCEPT !.status = Some("PENDING"),
                             !.start_time = Some(now),
                             !.error = None,
                             !.result = None])]

\* variant that writes the status and leaves result and error to a later
\* write
update_fields_status_first(old, status, result, error, chunk_count) ==
    [old EXCEPT
        !.status = Some(status),
        !.end_time = IF status_upper(status) \in {"COMPLETED", "FAILED"}
                     THEN Some("now") ELSE @]

\* variant that serialises whatever it is handed
update_fields_dumps(old, status, result, error, chunk_count) ==
    [old EXCEPT
        !.status = Some(status),
        !.result = IF result = None THEN @
                   ELSE Some(json_dumps(result[1])),
        !.error = IF error # None /\ error[1].len > 0
                  THEN Some(sanitize_error(error[1])) ELSE @,
        !.chunk_count = IF chunk_count # None THEN chunk_count ELSE @,
        !.end_time = IF status_upper(status) \in {"COMPLETED", "FAILED"}
                     THEN Some("now") ELSE @]

\* variant that never sets end_time
update_fields_noend(old, status, result, error, chunk_count) ==
    [old EXCEPT
        !.status = Some(status),
        !.result = IF result = None THEN @
                   ELSE IF is_str(result[1]) THEN result
                   ELSE Some(json_dumps(result[1])),
        !.error = IF error # None /\ error[1].len > 0
                  THEN Some(sanitize_error(error[1])) ELSE @,
        !.chunk_count = IF chunk_count # None THEN chunk_count ELSE @]

\* variant that sets the status and leaves the error for a later write
update_fields_noerror(old, status, result, error, chunk_count) ==
    [old EXCEPT
        !.status = Some(status),
        !.result = IF result = None THEN @
                   ELSE IF is_str(result[1]) THEN result
                   ELSE Some(json_dumps(result[1])),
        !.chunk_count = IF chunk_count # None THEN chunk_count ELSE @,
        !.end_time = IF status_upper(status) \in {"COMPLETED", "FAILED"}
                     THEN Some("now") ELSE @]

update_fields(old, status, result, error, chunk_count) ==
    [old EXCEPT
        !.status = Some(status),
        !.result = IF result = None THEN @
                   ELSE IF is_str(result[1]) THEN result
                   ELSE Some(json_dumps(result[1])),
        !.error = IF error # None /\ error[1].len > 0
                  THEN Some(sanitize_error(error[1])) ELSE @,
        !.chunk_count = IF chunk_count # None THEN chunk_count ELSE @,
        !.end_time = IF status_upper(status) \in {"COMPLETED", "FAILED"}
                     THEN Some("now") ELSE @]

\* variant whose filter matches every record
update_process_all(procs, session_id, status, result, error, chunk_count) ==
    [id \in DOMAIN procs |->
        IF procs[id] = Absent THEN Absent
        ELSE Some(update_fields(procs[id][1], status, result, error, chunk_count))]

\* variant whose update_one upserts
update_process_upsert(procs, session_id, status, result, error, chunk_count) ==
    LET old == IF procs[session_id] = Absent THEN NewProcess
               ELSE procs[session_id][1]
    IN [procs EXCEPT ![session_id] =
            Some(update_fields(old, status, result, error, chunk_count))]

\* update_one without upsert: nothing is written when no record matches
update_process(procs, session_id, status, result, error, chunk_count) ==
    IF procs[session_id] = Absent THEN procs
    ELSE [procs EXCEPT ![session_id] =
            Some(update_fields(procs[session_id][1], status, result, error,
                               chunk_count))]

\* update_one({"session_id": id}, {"$set": {"result": ...}}, upsert=True)
summary_upsert(procs, session_id, summary) ==
    LET old == IF procs[session_id] = Absent THEN NewProcess
               ELSE procs[session_id][1]
    IN [procs EXCEPT ![session_id] =
            Some([old EXCEPT !.result = Some(json_dumps(summary))])]

\* update_session_name: the title of the session document and the
\* session_name of the transcript document, where they exist
update_session_title_doc(docs, session_id, name) ==
    IF docs[session_id] = Absent THEN docs
    ELSE [docs EXCEPT ![session_id] = Some([@[1] EXCEPT !.title = name])]

update_chunk_session_name(docs, session_id, name) ==
    IF docs[session_id] = Absent THEN docs
    ELSE [docs EXCEPT ![session_id] = Some([@[1] EXCEPT !.session_name = Some(name)])]

\* save_transcript: upsert of the transcript document; session_name is not
\* among the fields it sets
save_transcript(docs, session_id) ==
    IF docs[session_id] = Absent
    THEN [docs EXCEPT ![session_id] = Some([session_name |-> None])]
    ELSE docs

\* get_api_key: a handle that was never initialised has db = None
get_api_key(handle, provider) ==
    IF provider \notin SupportedProviders
    THEN [err |-> Some(Raise("ValueError", Msg("Invalid provider: gemini", 24))), key |-> FALSE]
    ELSE IF handle \notin dbInit
    THEN [err |-> Some(Raise("AttributeError",
                     Msg("'NoneType' object has no attribute 'settings'", 45))),
          key |-> FALSE]
    ELSE [err |-> None, key |-> provider \in settings]

-----------------------------------------------------------------------------
(* Requests *)

EmptyText == [len |-> 0, blank |-> TRUE]

BlankText == [len |-> 9000, blank |-> TRUE]

\* transcripts of 9000, 18000, ... characters
GoodTexts == {[len |-> k * 9000, blank |-> FALSE] : k \in 1..MaxTextUnits}

Request(t, m, n, id, c, o) ==
    [text |-> t, model |-> m, model_name |-> n, session_id |-> id,
     chunk_size |-> c, overlap |-> o]

Llama3 == <<"L","l","a","m","a","3">>

Mistral == <<"m","i","s","t","r","a","l">>

Text(k) == [len |-> k * 9000, blank |-> FALSE]

\* the requests save_transcript accepts: every hosted provider and an
\* unsupported one on a 9000-character text, the local provider with a
\* small-family model on every text and with another model on the longest
AcceptedRequests ==
    {Request(Text(1), m, HostedModelName, "s1", 5000, 1000) :
        m \in RequestProviders \ {"ollama"}}
    \cup {Request(t, "ollama", Llama3, "s1", 5000, 1000) : t \in GoodTexts}
    \cup {Request(Text(MaxTextUnits), "ollama", Mistral, "s1", 5000, 1000)}

\* one request for each way save_transcript rejects
RejectedRequests ==
    {Request(t, "ollama", Llama3, "s1", 5000, 1000) : t \in {EmptyText, BlankText}}
    \cup {Request(Text(1), "ollama", Llama3, "s1", w[1], w[2]) :
            w \in {<<0, 1000>>, <<5000, 0 - 1>>}}

\* the requests of a behaviour that runs two tasks
LaterRequests ==
    {Request(Text(1), "ollama", Llama3, id, 5000, 1000) : id \in Ids}

Requests == AcceptedRequests \cup RejectedRequests \cup LaterRequests

\* the requests submitted while a store call of the handler raises
FaultRequests == {Request(Text(1), "ollama", Llama3, "s1", 5000, 1000)}

\* a second task is submitted only next to a first task of LaterRequests
SlotRequests(j) ==
    IF j = 1 THEN AcceptedRequests \cup LaterRequests
    ELSE IF jobs[1].transcript[1] \in LaterRequests THEN LaterRequests
    ELSE {}

IdleJob ==
    [pc |-> "idle", process_id |-> "s1", transcript |-> None,
     chunk_size |-> 0, overlap |-> 0, chunks |-> <<>>, i |-> 0,
     all_json_data |-> <<>>, outcomes |-> <<>>, requests |-> <<>>,
     updates |-> <<>>, error |-> None,
     interrupted |-> FALSE, closed |-> FALSE, cancelled |-> FALSE]

\* no function is applied on its own while the application runs
NoCall == [op |-> "none", arg |-> <<>>, out |-> <<>>]

Init ==
    /\ started = FALSE
    /\ dbInit = {}
    /\ sessions = [id \in Ids |-> Absent]
    /\ transcript_chunks = [id \in Ids |-> Absent]
    /\ summary_processes = [id \in Ids |-> Absent]
    /\ settings = {}
    /\ jobs = [j \in JobIds |-> IdleJob]
    /\ active_clients = <<>>
    /\ call = NoCall
    /\ stopped = FALSE

\* startup_event: db.initialize() and processor.initialize_db()
startup_event ==
    /\ ~started
    /\ started' = TRUE
    /\ dbInit' = dbInit \cup {"main.db", "processor.db"}
    /\ UNCHANGED <<sessions, transcript_chunks, summary_processes, settings,
                   jobs, active_clients, call, stopped>>

-----------------------------------------------------------------------------
(* Pre-flight, model selection and windowing *)
NoError == None

\* variant of the early validation without the credential check
background_preflight_nokeycheck(t) ==
    IF t.text.len = 0 \/ t.text.blank
    THEN Some(Raise("ValueError", Msg("Empty transcript text provided", 30)))
    ELSE NoError

\* process_transcript_background: early validation
background_preflight(t) ==
    IF t.text.len = 0 \/ t.text.blank
    THEN Some(Raise("ValueError", Msg("Empty transcript text provided", 30)))
    ELSE IF t.model \in {"claude", "groq", "openai"}
    THEN LET k == get_api_key("processor.db", t.model)
         IN IF k.err # None THEN k.err
            ELSE IF ~k.key
            THEN Some(Raise("ValueError", Msg("API key not configured", 80)))
            ELSE NoError
    ELSE NoError

\* variant that rejects an overlap that is not below the chunk width
validate_windowing_reject(text, chunk_size, overlap) ==
    IF text.len = 0
    THEN [err |-> Some(Raise("ValueError", Msg("Empty transcript text provided", 30))),
          chunk_size |-> chunk_size, overlap |-> overlap]
    ELSE IF chunk_size <= 0
    THEN [err |-> Some(Raise("ValueError", Msg("chunk_size must be positive", 27))),
          chunk_size |-> chunk_size, overlap |-> overlap]
    ELSE IF overlap < 0 \/ overlap >= chunk_size
    THEN [err |-> Some(Raise("ValueError", Msg("overlap must be non-negative", 28))),
          chunk_size |-> chunk_size, overlap |-> overlap]
    ELSE [err |-> NoError, chunk_size |-> chunk_size, overlap |-> overlap]

\* SummaryProcessor.process_transcript: validation and clamp
validate_windowing(text, chunk_size, overlap) ==
    IF text.len = 0
    THEN [err |-> Some(Raise("ValueError", Msg("Empty transcript text provided", 30))),
          chunk_size |-> chunk_size, overlap |-> overlap]
    ELSE IF chunk_size <= 0
    THEN [err |-> Some(Raise("ValueError", Msg("chunk_size must be positive", 27))),
          chunk_size |-> chunk_size, overlap |-> overlap]
    ELSE IF overlap < 0
    THEN [err |-> Some(Raise("ValueError", Msg("overlap must be non-negative", 28))),
          chunk_size |-> chunk_size, overlap |-> overlap]
    ELSE LET o1 == IF overlap >= chunk_size THEN chunk_size - 1 ELSE overlap
             step_size == chunk_size - o1
             c1 == IF step_size <= 0 THEN o1 + 1 ELSE chunk_size
         IN [err |-> NoError, chunk_size |-> c1, overlap |-> o1]

\* f"Unsupported model provider: {model}": 28 characters and the identifier,
\* which has 6 characters for every unsupported identifier of RequestProviders
unsupported_provider(model) ==
    [text |-> <<"Unsupported model provider: ", model>>, len |-> 28 + 6,
     lf |-> 0, cr |-> 0]

\* variant that runs an unknown provider like the local one
select_model_any(model, model_name, chunk_size, overlap) ==
    IF model \in HostedProviders
    THEN LET k == get_api_key("transcript_processor.db", model)
         IN IF k.err # None
            THEN [err |-> k.err, chunk_size |-> chunk_size, overlap |-> overlap]
            ELSE IF ~k.key
            THEN [err |-> Some(Raise("ValueError",
                            Msg("API_KEY environment variable not set", 46))),
                  chunk_size |-> chunk_size, overlap |-> overlap]
            ELSE [err |-> NoError, chunk_size |-> chunk_size, overlap |-> overlap]
    ELSE IF \/ startswith(lower(model_name), <<"p","h","i","4">>)
            \/ startswith(lower(model_name), <<"l","l","a","m","a">>)
    THEN [err |-> NoError, chunk_size |-> 10000, overlap |-> 1000]
    ELSE [err |-> NoError, chunk_size |-> 30000, overlap |-> 1000]

\* variant whose prefix match is case-sensitive
select_model_exact(model, model_name, chunk_size, overlap) ==
    IF model \in HostedProviders
    THEN LET k == get_api_key("transcript_processor.db", model)
         IN IF k.err # None
            THEN [err |-> k.err, chunk_size |-> chunk_size, overlap |-> overlap]
            ELSE IF ~k.key
            THEN [err |-> Some(Raise("ValueError",
                            Msg("API_KEY environment variable not set", 46))),
                  chunk_size |-> chunk_size, overlap |-> overlap]
            ELSE [err |-> NoError, chunk_size |-> chunk_size, overlap |-> overlap]
    ELSE IF model = "ollama"
    THEN IF \/ startswith(model_name, <<"p","h","i","4">>)
            \/ startswith(model_name, <<"l","l","a","m","a">>)
         THEN [err |-> NoError, chunk_size |-> 10000, overlap |-> 1000]
         ELSE [err |-> NoError, chunk_size |-> 30000, overlap |-> 1000]
    ELSE [err |-> Some(Raise("ValueError", unsupported_provider(model))),
          chunk_size |-> chunk_size, overlap |-> overlap]

\* TranscriptProcessor.process_transcript: provider selection
select_model(model, model_name, chunk_size, overlap) ==
    IF model \in HostedProviders
    THEN LET k == get_api_key("transcript_processor.db", model)
         IN IF k.err # None
            THEN [err |-> k.err, chunk_size |-> chunk_size, overlap |-> overlap]
            ELSE IF ~k.key
            THEN [err |-> Some(Raise("ValueError",
                            Msg("API_KEY environment variable not set", 46))),
                  chunk_size |-> chunk_size, overlap |-> overlap]
            ELSE [err |-> NoError, chunk_size |-> chunk_size, overlap |-> overlap]
    ELSE IF model = "ollama"
    THEN IF \/ startswith(lower(model_name), <<"p","h","i","4">>)
            \/ startswith(lower(model_name), <<"l","l","a","m","a">>)
         THEN [err |-> NoError, chunk_size |-> 10000, overlap |-> 1000]
         ELSE [err |-> NoError, chunk_size |-> 30000, overlap |-> 1000]
    ELSE [err |-> Some(Raise("ValueError", unsupported_provider(model))),
          chunk_size |-> chunk_size, overlap |-> overlap]

\* variant whose step is the whole chunk width
split_step_nooverlap(chunk_size, overlap) ==
    chunk_size

\* step = chunk_size - overlap; a step <= 0 resets overlap to
\* max(0, chunk_size - 100) and recomputes the step
split_step(chunk_size, overlap) ==
    LET step0 == chunk_size - overlap
        ov == IF step0 <= 0 THEN Max(0, chunk_size - 100) ELSE overlap
    IN IF step0 <= 0 THEN chunk_size - ov ELSE step0

\* variant that leaves out a last chunk shorter than the step
split_chunks_floor(text, chunk_size, overlap) ==
    LET step == split_step(chunk_size, overlap)
        n == text.len \div step
    IN [k \in 1..n |-> <<(k - 1) * step, Min((k - 1) * step + chunk_size, text.len)>>]

\* chunks = [text[i : i + chunk_size] for i in range(0, len(text), step)]
split_chunks(text, chunk_size, overlap) ==
    LET step == split_step(chunk_size, overlap)
        n == (text.len + step - 1) \div step
    IN [k \in 1..n |-> <<(k - 1) * step, Min((k - 1) * step + chunk_size, text.len)>>]

\* except ValueError: str(e); except Exception: f"Processing error: {str(e)}"
handler_message(exc) ==
    IF exc.cls = "ValueError" THEN exc.msg ELSE processing_error(exc.msg)

-----------------------------------------------------------------------------
(* Submit *)

\* save_transcript: the validation that precedes the write
save_transcript_error(t) ==
    IF t.text.len = 0 \/ t.text.blank THEN "bad_text"
    ELSE IF t.chunk_size <= 0 \/ t.overlap < 0 THEN "bad_window"
    ELSE IF t.text.len > 10000000 THEN "bad_text"
    ELSE "accepted"

FreeSlots == {j \in JobIds : jobs[j].pc = "idle"}

QueuedJob(t) ==
    [IdleJob EXCEPT !.pc = "queued", !.process_id = t.session_id,
                    !.transcript = Some(t)]

\* process_transcript_api: create_process, save_transcript, add_task.
\* fault names the store call that raises, if any; a raise ends the handler
\* with HTTP 500 and no background task.
process_transcript_api(t, fault) ==
    /\ started /\ ~stopped
    /\ IF fault = "create_process"
       THEN UNCHANGED vars
       ELSE LET check == IF save_transcript_error(t) # "accepted"
                         THEN save_transcript_error(t)
                         ELSE IF fault = "save_transcript" THEN "save_failed"
                         ELSE "accepted"
            IN /\ summary_processes' = create_process(summary_processes, t.session_id, Epoch)
               /\ IF check # "accepted"
                  THEN UNCHANGED <<transcript_chunks, jobs>>
                  ELSE /\ FreeSlots # {}
                       /\ transcript_chunks' = save_transcript(transcript_chunks, t.session_id)
                       /\ LET j == CHOOSE x \in FreeSlots : \A y \in FreeSlots : x <= y
                          IN /\ t \in SlotRequests(j)
                             /\ jobs' = [jobs EXCEPT ![j] = QueuedJob(t)]
               /\ UNCHANGED <<started, dbInit, sessions, settings, active_clients, call, stopped>>

-----------------------------------------------------------------------------
(* Chunk summaries and their aggregation *)

\* d[k] = v on a dict
setitem(d, k, v) == [x \in DOMAIN d \cup {k} |-> IF x = k THEN v ELSE d[x]]

FixedKeys == <<"People", "VocabularyLearned", "GrammarPoints", "PronunciationNotes", "ConversationTopics", 
               "CorrectionsMade", "KeyPhrases", "Homework", "ProgressNotes">>

\* the titles final_summary starts with, character by character
FixedTitle(key) ==
    CASE key = "People" -> <<"P","e","o","p","l","e">>
      [] key = "VocabularyLearned" -> <<"V","o","c","a","b","u","l","a","r","y"," ","L","e","a","r","n","e","d">>
      [] key = "GrammarPoints" -> <<"G","r","a","m","m","a","r"," ","P","o","i","n","t","s">>
      [] key = "PronunciationNotes" -> <<"P","r","o","n","u","n","c","i","a","t","i","o","n"," ","N","o","t","e","s">>
      [] key = "ConversationTopics" -> <<"C","o","n","v","e","r","s","a","t","i","o","n"," ","T","o","p","i","c","s">>
      [] key = "CorrectionsMade" -> <<"C","o","r","r","e","c","t","i","o","n","s"," ","M","a","d","e">>
      [] key = "KeyPhrases" -> <<"K","e","y"," ","P","h","r","a","s","e","s">>
      [] key = "Homework" -> <<"H","o","m","e","w","o","r","k">>
      [] key = "ProgressNotes" -> <<"P","r","o","g","r","e","s","s"," ","N","o","t","e","s">>

Section(title, blocks) == [title |-> title, blocks |-> blocks]

\* every fixed section under its usual title, without blocks
EmptyFixed == [k \in {FixedKeys[i] : i \in 1..Len(FixedKeys)} |->
                 Section(FixedTitle(k), <<>>)]

\* SummaryResponse.model_dump_json(): every field is present
SummaryResponse(name, focus, fixed, notes) ==
    [SessionName |-> name, LanguageFocus |-> focus,
     People |-> fixed["People"],
     VocabularyLearned |-> fixed["VocabularyLearned"],
     GrammarPoints |-> fixed["GrammarPoints"],
     PronunciationNotes |-> fixed["PronunciationNotes"],
     ConversationTopics |-> fixed["ConversationTopics"],
     CorrectionsMade |-> fixed["CorrectionsMade"],
     KeyPhrases |-> fixed["KeyPhrases"],
     Homework |-> fixed["Homework"],
     ProgressNotes |-> fixed["ProgressNotes"],
     SessionNotes |-> notes]

\* the summary a provider returns for chunk `index` of a job: its blocks
\* carry the index of the chunk they were written from
chunk_summary(index, name) ==
    SummaryResponse(name, "",
        [EmptyFixed EXCEPT !["VocabularyLearned"].blocks = <<<<index, "v">>>>],
        [session_name |-> name, sections |-> <<>>])

\* variant that starts the People section with a placeholder block
initial_summary_placeholder ==
    SummaryResponse("", "",
        [EmptyFixed EXCEPT !["People"].blocks = <<<<"none", "p">>>>],
        [session_name |-> "", sections |-> <<>>])

\* final_summary before the first chunk summary
initial_summary ==
    [SessionName |-> "", LanguageFocus |-> "",
     People |-> Section(FixedTitle("People"), <<>>),
     VocabularyLearned |-> Section(FixedTitle("VocabularyLearned"), <<>>),
     GrammarPoints |-> Section(FixedTitle("GrammarPoints"), <<>>),
     PronunciationNotes |-> Section(FixedTitle("PronunciationNotes"), <<>>),
     ConversationTopics |-> Section(FixedTitle("ConversationTopics"), <<>>),
     CorrectionsMade |-> Section(FixedTitle("CorrectionsMade"), <<>>),
     KeyPhrases |-> Section(FixedTitle("KeyPhrases"), <<>>),
     Homework |-> Section(FixedTitle("Homework"), <<>>),
     ProgressNotes |-> Section(FixedTitle("ProgressNotes"), <<>>),
     SessionNotes |-> [session_name |-> "", sections |-> <<>>]]

\* variant in which a chunk's blocks replace the cumulative blocks
extend_fixed_replace(final, json_dict, key) ==
    [final EXCEPT ![key].blocks = json_dict[key].blocks]

\* one fixed key of one chunk summary: its blocks extend the cumulative
\* section, and the section of SessionNotes with the same title, or a new one
extend_fixed(final, json_dict, key) ==
    LET sec == json_dict[key]
        sections == final.SessionNotes.sections
        hits == {i \in 1..Len(sections) : sections[i].title = sec.title}
        first == CHOOSE i \in hits : \A l \in hits : i <= l
    IN [final EXCEPT
          ![key].blocks = @ \o sec.blocks,
          !.SessionNotes.sections =
              IF hits # {}
              THEN [@ EXCEPT ![first].blocks = @ \o sec.blocks]
              ELSE Append(@, Section(sec.title, sec.blocks))]

RECURSIVE extend_all_fixed(_, _, _)
\* for key in [People, ..., ProgressNotes]
extend_all_fixed(final, json_dict, k) ==
    IF k > Len(FixedKeys) THEN final
    ELSE extend_all_fixed(extend_fixed(final, json_dict, FixedKeys[k]),
                          json_dict, k + 1)

\* variant of the loop body in which every value overwrites the scalars
aggregate_chunk_overwrite(final, json_dict) ==
    extend_all_fixed(
        [final EXCEPT !.SessionName = json_dict.SessionName,
                      !.LanguageFocus = json_dict.LanguageFocus,
                      !.SessionNotes.sections = @ \o json_dict.SessionNotes.sections],
        json_dict, 1)

\* the body of the loop over all_json_data
aggregate_chunk(final, json_dict) ==
    LET notes == json_dict.SessionNotes
        scalars == [final EXCEPT
            !.SessionName = IF json_dict.SessionName # ""
                            THEN json_dict.SessionName ELSE @,
            !.LanguageFocus = IF json_dict.LanguageFocus # ""
                              THEN json_dict.LanguageFocus ELSE @,
            !.SessionNotes.sections = @ \o notes.sections,
            !.SessionNotes.session_name = IF notes.session_name # ""
                                          THEN notes.session_name ELSE @]
    IN extend_all_fixed(scalars, json_dict, 1)

RECURSIVE aggregate_loop(_, _)
aggregate_loop(all_json_data, final) ==
    IF all_json_data = <<>> THEN final
    ELSE aggregate_loop(Tail(all_json_data),
                        aggregate_chunk(final, Head(all_json_data)))

\* MeetingName, MeetingNotes and language_focus added after the loop
with_aliases(final) ==
    LET named == setitem(final, "MeetingName", final.SessionName)
        noted == setitem(named, "MeetingNotes",
                    [meeting_name |-> final.SessionNotes.session_name,
                     sections |-> final.SessionNotes.sections])
    IN IF final.LanguageFocus # ""
       THEN [noted EXCEPT !.SessionNotes =
                setitem(@, "language_focus", final.LanguageFocus)]
       ELSE noted

\* final_summary built from the successful chunk summaries
aggregate(all_json_data) ==
    with_aliases(aggregate_loop(all_json_data, initial_summary))

-----------------------------------------------------------------------------
(* Poll: the flattened view of a stored document and the response *)

\* d.get(k, default)
get(d, k, default) == IF k \in DOMAIN d THEN d[k] ELSE default

EmptyDict == [x \in {} |-> x]

RECURSIVE replace(_, _, _)
\* str.replace(old, new): every occurrence, from the left, without overlap
replace(s, old, new) ==
    IF Len(s) < Len(old) THEN s
    ELSE IF SubSeq(s, 1, Len(old)) = old
    THEN new \o replace(SubSeq(s, Len(old) + 1, Len(s)), old, new)
    ELSE <<Head(s)>> \o replace(Tail(s), old, new)

\* title.lower().replace(" & ", "_").replace(" ", "_")
section_key(title) ==
    replace(replace(lower(title), <<" ","&"," ">>, <<"_">>), <<" ">>, <<"_">>)

Digits == <<"0","1","2","3","4","5","6","7","8","9">>

RECURSIVE str_int(_)
\* str(n) for n >= 0
str_int(n) ==
    IF n < 10 THEN <<Digits[n + 1]>>
    ELSE str_int(n \div 10) \o <<Digits[(n % 10) + 1]>>

RECURSIVE transform_sections(_, _, _)
\* for index, section in enumerate(sections_list): the key is the
\* normalised title, or f"{base_key}_{index}" when that key is in use
transform_sections(sections_list, index, acc) ==
    IF index >= Len(sections_list) THEN acc
    ELSE LET section == sections_list[index + 1]
             base_key == section_key(section.title)
             key == IF base_key \in acc.used_keys
                    THEN base_key \o <<"_">> \o str_int(index)
                    ELSE base_key
         IN transform_sections(sections_list, index + 1,
                [used_keys |-> acc.used_keys \cup {key},
                 sections |-> setitem(acc.sections, key, section),
                 order |-> Append(acc.order, key)])

\* transformed_data: SessionName, MeetingName, _section_order (when the
\* document has a notes object with a sections list) and one entry per key.
\* The entries are kept apart from the three fixed keys; no title used here
\* normalises to one of those.
transform(summary_data) ==
    LET name == get(summary_data, "SessionName",
                    get(summary_data, "MeetingName", ""))
        session_notes == get(summary_data, "SessionNotes", EmptyDict)
        notes_data == IF session_notes # EmptyDict THEN session_notes
                      ELSE get(summary_data, "MeetingNotes", EmptyDict)
        flat == transform_sections(get(notes_data, "sections", <<>>), 0,
                    [used_keys |-> {}, sections |-> EmptyDict, order |-> <<>>])
    IN [SessionName |-> name, MeetingName |-> name,
        section_order |-> IF notes_data # EmptyDict THEN Some(flat.order) ELSE None,
        sections |-> IF notes_data # EmptyDict THEN flat.sections ELSE EmptyDict]

\* json.loads, once
json_loads(text) == text.json

\* json.loads; a text that encodes a text is decoded once more
parse_result(result) ==
    IF is_str(result.json) THEN result.json.json ELSE result.json

Response(code, status, data, error) ==
    [code |-> code, status |-> status, data |-> data, error |-> error]

\* variant that returns the stored document whatever the status is
poll_any_status(id) ==
    IF summary_processes[id] = Absent
    THEN Response(404, "error", None, Some(Msg("Session ID not found", 20)))
    ELSE LET process == summary_processes[id][1]
         IN IF process.result = None
            THEN Response(202, "processing", None, process.error)
            ELSE Response(200, "completed",
                          Some(transform(parse_result(process.result[1]))),
                          process.error)

\* get_transcript_data and the response get_summary builds from it
poll(id) ==
    IF transcript_chunks[id] = Absent /\ summary_processes[id] = Absent
    THEN Response(404, "error", None, Some(Msg("Session ID not found", 20)))
    ELSE IF summary_processes[id] = Absent
    THEN Response(500, "error", None,
                  Some(Msg("Unknown or unexpected status: unknown", 37)))
    ELSE LET process == summary_processes[id][1]
         IN IF process.status = None
            THEN Response(500, "error", None,
                          Some(Msg("Internal server error", 69)))
            ELSE LET status == status_lower(process.status[1])
                     summary_data == IF process.result # None
                                     THEN Some(parse_result(process.result[1]))
                                     ELSE None
                 IN IF status = "failed"
                    THEN Response(400, "error", None, process.error)
                    ELSE IF status \in {"processing", "pending", "started"}
                    THEN Response(202, "processing", None, None)
                    ELSE IF status = "completed"
                    THEN IF summary_data = None \/ summary_data = Some(EmptyDict)
                         THEN Response(500, "error", None,
                                Some(Msg("Completed but summary data is missing or invalid", 48)))
                         ELSE Response(200, "completed",
                                       Some(transform(summary_data[1])), None)
                    ELSE Response(500, "error", None,
                            Some(Msg("Unknown or unexpected status", 30)))

-----------------------------------------------------------------------------
(* Background pipeline *)

result_retries == 2

Fail(job, exc) ==
    [job EXCEPT !.pc = "handler", !.error = Some(exc)]

\* process_transcript_background up to the first chunk call
bg_start(j) ==
    /\ jobs[j].pc = "queued"
    /\ ~jobs[j].cancelled
    /\ LET job == jobs[j]
           t == job.transcript[1]
           e1 == background_preflight(t)
           w == validate_windowing(t.text, t.chunk_size, t.overlap)
           m == select_model(t.model, t.model_name, w.chunk_size, w.overlap)
       IN jobs' = [jobs EXCEPT ![j] =
            IF e1 # NoError THEN Fail(job, e1[1])
            ELSE IF w.err # NoError THEN Fail(job, w.err[1])
            ELSE IF m.err # NoError THEN Fail(job, m.err[1])
            ELSE [job EXCEPT !.pc = "chunks",
                             !.chunk_size = m.chunk_size,
                             !.overlap = m.overlap,
                             !.chunks = split_chunks(t.text, m.chunk_size, m.overlap)]]
    /\ UNCHANGED <<started, dbInit, sessions, transcript_chunks, summary_processes,
                   settings, active_clients, call, stopped>>

\* variant that issues the next call without waiting for the one in flight
chunk_begin_fanout(j) ==
    /\ jobs[j].pc \in {"chunks", "inflight"}
    /\ ~jobs[j].cancelled
    /\ jobs[j].i < Len(jobs[j].chunks)
    /\ jobs' = [jobs EXCEPT ![j].pc = "inflight"]
    /\ active_clients' =
         IF jobs[j].transcript[1].model = "ollama"
         THEN Append(active_clients, <<j, jobs[j].i + 1>>)
         ELSE active_clients
    /\ UNCHANGED <<started, dbInit, sessions, transcript_chunks, summary_processes,
                   settings, call, stopped>>

\* the call for chunk i + 1 is issued; the local variant tracks its client
chunk_begin(j) ==
    /\ jobs[j].pc = "chunks"
    /\ ~jobs[j].cancelled
    /\ jobs[j].i < Len(jobs[j].chunks)
    /\ jobs' = [jobs EXCEPT ![j].pc = "inflight"]
    /\ active_clients' =
         IF jobs[j].transcript[1].model = "ollama"
         THEN Append(active_clients, <<j, jobs[j].i + 1>>)
         ELSE active_clients
    /\ UNCHANGED <<started, dbInit, sessions, transcript_chunks, summary_processes,
                   settings, call, stopped>>

\* what one adapter call can come back with
provider_outcomes(model) ==
    IF model = "ollama" THEN {"summary", "text", "raise"}
    ELSE {"summary", "unexpected", "raise"}

\* variant in which every adapter call may repeat its request
provider_requests_retry(model) ==
    1..(1 + result_retries)

\* requests issued to the provider by one adapter call: client.chat once for
\* the local variant, agent.run with result_retries for the hosted ones
provider_requests(model) ==
    IF model = "ollama" THEN {1} ELSE 1..(1 + result_retries)

SessionNames == {"", "Lesson"}

\* variant of the finally block that leaves the list as it is
remove_client_keep(clients, c) == clients

\* finally: if client in self.active_clients: self.active_clients.remove(client)
remove_client(clients, c) ==
    IF \E k \in 1..Len(clients) : clients[k] = c
    THEN LET first == CHOOSE k \in 1..Len(clients) :
                        clients[k] = c /\ \A l \in 1..(k - 1) : clients[l] # c
         IN SubSeq(clients, 1, first - 1) \o SubSeq(clients, first + 1, Len(clients))
    ELSE clients

\* variant that puts a new summary in front of the earlier ones
collect_prepend(all_json_data, index, outcome, name) ==
    IF outcome = "summary"
    THEN <<chunk_summary(index, name)>> \o all_json_data
    ELSE all_json_data

\* all_json_data.append(chunk_summary_json) on success, nothing otherwise
collect(all_json_data, index, outcome, name) ==
    IF outcome = "summary"
    THEN Append(all_json_data, chunk_summary(index, name))
    ELSE all_json_data

\* variant in which a raising chunk call ends the run
chunk_end_abort(j, outcome, name, nreq) ==
    /\ jobs[j].pc = "inflight"
    /\ ~jobs[j].cancelled
    /\ outcome \in provider_outcomes(jobs[j].transcript[1].model)
    /\ nreq \in provider_requests(jobs[j].transcript[1].model)
    /\ outcome # "summary" => name = ""
    /\ jobs[j].closed => outcome = "raise"
    /\ jobs' = [jobs EXCEPT ![j] =
            IF outcome = "raise"
            THEN [Fail(@, Raise("Exception", DriverMsg)) EXCEPT
                      !.i = @ + 1,
                      !.closed = FALSE,
                      !.outcomes = Append(@, outcome),
                      !.requests = Append(@, nreq)]
            ELSE [@ EXCEPT !.pc = "chunks",
                      !.i = @ + 1,
                      !.closed = FALSE,
                      !.all_json_data = collect(@, jobs[j].i + 1, outcome, name),
                      !.outcomes = Append(@, outcome),
                      !.requests = Append(@, nreq)]]
    /\ active_clients' = remove_client(active_clients, <<j, jobs[j].i + 1>>)
    /\ UNCHANGED <<started, dbInit, sessions, transcript_chunks, summary_processes,
                   settings, call, stopped>>

\* the call for chunk i + 1 returns or raises; the loop moves on
chunk_end(j, outcome, name, nreq) ==
    /\ jobs[j].pc = "inflight"
    /\ ~jobs[j].cancelled
    /\ outcome \in provider_outcomes(jobs[j].transcript[1].model)
    /\ nreq \in provider_requests(jobs[j].transcript[1].model)
    /\ outcome # "summary" => name = ""
    /\ jobs[j].closed => outcome = "raise"
    /\ jobs' = [jobs EXCEPT ![j] =
            [@ EXCEPT !.pc = "chunks",
                      !.i = @ + 1,
                      !.closed = FALSE,
                      !.all_json_data = collect(@, jobs[j].i + 1, outcome, name),
                      !.outcomes = Append(@, outcome),
                      !.requests = Append(@, nreq)]]
    /\ active_clients' = remove_client(active_clients, <<j, jobs[j].i + 1>>)
    /\ UNCHANGED <<started, dbInit, sessions, transcript_chunks, summary_processes,
                   settings, call, stopped>>

no_chunks_message ==
    Msg("Summary generation failed: No chunks were processed successfully.", 97)

\* the status update that ends the try body
final_status(all_json_data) ==
    IF all_json_data # <<>> THEN "completed" ELSE "failed"

\* process_transcript_background after the chunk loop: aggregation,
\* update_session_name when a SessionName came back, update_process.
\* name_fault / update_fault say whether the store call raises. Each
\* update_process call is noted with its status, whether it raised and
\* whether its filter matched a record (update_result.matched_count > 0).
bg_finish(j, name_fault, update_fault) ==
    /\ jobs[j].pc = "chunks"
    /\ ~jobs[j].cancelled
    /\ jobs[j].i = Len(jobs[j].chunks)
    /\ LET job == jobs[j]
           final_summary == aggregate(job.all_json_data)
           named == final_summary.SessionName # ""
           status == final_status(job.all_json_data)
           result == IF status = "completed"
                     THEN Some(json_dumps(final_summary)) ELSE None
           error == IF status = "completed" THEN None
                    ELSE Some(no_chunks_message)
       IN /\ IF named /\ ~name_fault
             THEN /\ sessions' = update_session_title_doc(sessions,
                                    job.transcript[1].session_id, final_summary.SessionName)
                  /\ transcript_chunks' = update_chunk_session_name(transcript_chunks,
                                    job.transcript[1].session_id, final_summary.SessionName)
             ELSE UNCHANGED <<sessions, transcript_chunks>>
          /\ IF named /\ name_fault
             THEN /\ jobs' = [jobs EXCEPT ![j] = Fail(job, Raise("Exception", DriverMsg))]
                  /\ UNCHANGED summary_processes
             ELSE IF update_fault
             THEN /\ jobs' = [jobs EXCEPT ![j] =
                       [Fail(job, Raise("Exception", DriverMsg)) EXCEPT
                           !.updates = Append(@, [status |-> status, raised |-> TRUE,
                                                  matched |-> FALSE])]]
                  /\ UNCHANGED summary_processes
             ELSE /\ jobs' = [jobs EXCEPT ![j] =
                       [job EXCEPT !.pc = "done",
                            !.updates = Append(@, [status |-> status, raised |-> FALSE,
                                 matched |-> summary_processes[job.process_id] # Absent])]]
                  /\ summary_processes' =
                       update_process(summary_processes, job.process_id, status,
                                      result, error, None)
    /\ UNCHANGED <<started, dbInit, settings, active_clients, call, stopped>>

\* variant of the except blocks that calls update_process again when the
\* call raised
bg_handler_retry(j, update_fault) ==
    /\ jobs[j].pc = "handler"
    /\ ~jobs[j].cancelled
    /\ LET job == jobs[j]
           error_msg == handler_message(job.error[1])
           calls == IF update_fault
                    THEN <<[status |-> "failed", raised |-> TRUE, matched |-> FALSE],
                           [status |-> "failed", raised |-> FALSE,
                            matched |-> summary_processes[job.process_id] # Absent]>>
                    ELSE <<[status |-> "failed", raised |-> FALSE,
                            matched |-> summary_processes[job.process_id] # Absent]>>
       IN /\ jobs' = [jobs EXCEPT ![j] =
                [job EXCEPT !.pc = "done", !.updates = @ \o calls]]
          /\ summary_processes' =
                update_process(summary_processes, job.process_id, "failed",
                               None, Some(error_msg), None)
    /\ UNCHANGED <<started, dbInit, sessions, transcript_chunks, settings,
                   active_clients, call, stopped>>

\* the except blocks: update_process(status="failed", error=error_msg); a
\* raise of this call is logged and swallowed
bg_handler(j, update_fault) ==
    /\ jobs[j].pc = "handler"
    /\ ~jobs[j].cancelled
    /\ LET job == jobs[j]
           error_msg == handler_message(job.error[1])
       IN /\ jobs' = [jobs EXCEPT ![j] =
                [job EXCEPT !.pc = "done",
                     !.updates = Append(@, [status |-> "failed",
                                            raised |-> update_fault,
                                            matched |-> ~update_fault /\
                                               summary_processes[job.process_id] # Absent])]]
          /\ summary_processes' =
                IF update_fault THEN summary_processes
                ELSE update_process(summary_processes, job.process_id, "failed",
                                    None, Some(error_msg), None)
    /\ UNCHANGED <<started, dbInit, sessions, transcript_chunks, settings,
                   active_clients, call, stopped>>

-----------------------------------------------------------------------------
(* The other endpoints *)

\* /save-transcript -> save_session: a new session document
save_session(id) ==
    /\ started /\ ~stopped
    /\ sessions[id] = Absent
    /\ sessions' = [sessions EXCEPT ![id] = Some([title |-> "Untitled"])]
    /\ UNCHANGED <<started, dbInit, transcript_chunks, summary_processes, settings,
                   jobs, active_clients, call, stopped>>

\* delete_session: nothing is deleted when the session document is missing
delete_session(id) ==
    /\ started /\ ~stopped
    /\ IF sessions[id] = Absent
       THEN UNCHANGED <<sessions, transcript_chunks, summary_processes>>
       ELSE /\ transcript_chunks' = [transcript_chunks EXCEPT ![id] = Absent]
            /\ summary_processes' = [summary_processes EXCEPT ![id] = Absent]
            /\ sessions' = [sessions EXCEPT ![id] = Absent]
    /\ UNCHANGED <<started, dbInit, settings, jobs, active_clients, call, stopped>>

Summaries == {[edited |-> TRUE], EmptyDict}

\* /save-session-summary -> update_session_summary
update_session_summary(id, summary) ==
    /\ started /\ ~stopped
    /\ IF sessions[id] = Absent
       THEN UNCHANGED summary_processes
       ELSE summary_processes' = summary_upsert(summary_processes, id, summary)
    /\ UNCHANGED <<started, dbInit, sessions, transcript_chunks, settings, jobs,
                   active_clients, call, stopped>>

\* /save-model-config -> save_api_key with a non-empty key
save_api_key(provider) ==
    /\ started /\ ~stopped
    /\ provider \in SupportedProviders
    /\ settings' = settings \cup {provider}
    /\ UNCHANGED <<started, dbInit, sessions, transcript_chunks, summary_processes,
                   jobs, active_clients, call, stopped>>

\* variant of the poll that stores the error it reports
get_summary_persist(id) ==
    /\ started /\ ~stopped
    /\ summary_processes' =
         IF summary_processes[id] = Absent THEN summary_processes
         ELSE [summary_processes EXCEPT ![id] =
                 Some([@[1] EXCEPT !.error = Some(Msg("Invalid summary data format", 27))])]
    /\ UNCHANGED <<started, dbInit, sessions, transcript_chunks, settings, jobs,
                   active_clients, call, stopped>>

\* /get-summary: reads transcript_chunks and summary_processes, writes nothing
get_summary(id) ==
    /\ started /\ ~stopped
    /\ UNCHANGED vars

Next ==
    \/ startup_event
    \/ \E t \in Requests : process_transcript_api(t, "none")
    \/ \E t \in FaultRequests, fault \in {"create_process", "save_transcript"} :
          process_transcript_api(t, fault)
    \/ \E j \in JobIds : bg_start(j)
    \/ \E j \in JobIds : chunk_begin(j)
    \/ \E j \in JobIds, outcome \in {"summary", "text", "unexpected", "raise"},
          name \in SessionNames, nreq \in 1..(1 + result_retries) :
          chunk_end(j, outcome, name, nreq)
    \/ \E j \in JobIds, name_fault \in BOOLEAN, update_fault \in BOOLEAN :
          bg_finish(j, name_fault, update_fault)
    \/ \E j \in JobIds, update_fault \in BOOLEAN : bg_handler(j, update_fault)
    \/ \E id \in SessionIds : save_session(id)
    \/ \E id \in SessionIds : delete_session(id)
    \/ \E id \in SessionIds, summary \in Summaries : update_session_summary(id, summary)
    \/ \E provider \in KeyProviders : save_api_key(provider)
    \/ \E id \in Ids : get_summary(id)

Spec == Init /\ [][Next]_vars

-----------------------------------------------------------------------------
(* The application with a shutdown *)

\* the task is between two chunk calls or waits for one
MidRun(job) == job.pc \in {"chunks", "inflight"}

\* the jobs whose client is in active_clients
Tracked == {active_clients[k][1] : k \in 1..Len(active_clients)}

\* shutdown_event -> processor.cleanup(): the connection of every tracked
\* client is closed and active_clients is cleared; db.close() closes the
\* handle of main.py, not the one the background tasks write through
shutdown_event ==
    /\ started /\ ~stopped
    /\ stopped' = TRUE
    /\ active_clients' = <<>>
    /\ jobs' = [j \in JobIds |->
                  [jobs[j] EXCEPT !.interrupted = MidRun(jobs[j]),
                                  !.closed = j \in Tracked]]
    /\ UNCHANGED <<started, dbInit, sessions, transcript_chunks, summary_processes,
                   settings, call>>

\* the task is cancelled: CancelledError is no Exception, so neither the
\* chunk loop nor the handlers of process_transcript_background catch it;
\* the finally of chat_ollama_model removes the client
task_cancelled(j) ==
    /\ stopped
    /\ jobs[j].pc \in {"queued", "chunks", "inflight", "handler"}
    /\ ~jobs[j].cancelled
    /\ jobs' = [jobs EXCEPT ![j].cancelled = TRUE]
    /\ active_clients' = remove_client(active_clients, <<j, jobs[j].i + 1>>)
    /\ UNCHANGED <<started, dbInit, sessions, transcript_chunks, summary_processes,
                   settings, call, stopped>>

\* the requests of a behaviour that is shut down
ShutdownRequests ==
    {Request(t, "ollama", Llama3, "s1", 5000, 1000) : t \in GoodTexts}
    \cup {Request(Text(1), "openai", HostedModelName, "s1", 5000, 1000)}

NextShutdown ==
    \/ startup_event
    \/ \E t \in ShutdownRequests : process_transcript_api(t, "none")
    \/ \E j \in JobIds : bg_start(j)
    \/ \E j \in JobIds : chunk_begin(j)
    \/ \E j \in JobIds, outcome \in {"summary", "text", "unexpected", "raise"},
          name \in SessionNames, nreq \in 1..(1 + result_retries) :
          chunk_end(j, outcome, name, nreq)
    \/ \E j \in JobIds, name_fault \in BOOLEAN, update_fault \in BOOLEAN :
          bg_finish(j, name_fault, update_fault)
    \/ \E j \in JobIds, update_fault \in BOOLEAN : bg_handler(j, update_fault)
    \/ \E id \in SessionIds : get_summary(id)
    \/ shutdown_event
    \/ \E j \in JobIds : task_cancelled(j)

SpecShutdown == Init /\ [][NextShutdown]_vars

-----------------------------------------------------------------------------
(* Windowing applied on its own *)

MaxLen == 6

MaxWidth == 3

MaxOverlap == 4

Phi4Upper == <<"P","H","I","4">>

WindowNames ==
    { Llama3, Mistral, Phi4Upper, <<"p","h","i","3">>,
      <<"x","l","l","a","m","a">>, <<"l","l","a","m">>, <<>> }

\* length, chunk_size and overlap of the kind a client sends
SampleWindows ==
    { <<12000, 5000, 1000>>, <<35000, 5000, 1000>>, <<12000, 30000, 1000>>,
      <<300, 150, 150>>, <<300, 150, 200>> }

WindowRequest(n, m, name, c, o) ==
    Request([len |-> n, blank |-> FALSE], m, name, "s1", c, o)

\* arguments with a caller-supplied window: every small one and the samples
WindowArgs ==
    {WindowRequest(n, "openai", HostedModelName, c, o) :
        n \in 0..MaxLen, c \in 0..MaxWidth, o \in (0 - 1)..MaxOverlap}
    \cup {WindowRequest(w[1], "openai", HostedModelName, w[2], w[3]) :
            w \in SampleWindows}

\* arguments of whole jobs: the local variant under every name, a hosted one
JobArgs ==
    {WindowRequest(w[1], "ollama", name, w[2], w[3]) :
        w \in SampleWindows, name \in WindowNames}
    \cup {WindowRequest(w[1], "openai", HostedModelName, w[2], w[3]) :
            w \in SampleWindows}

NoWindow == [err |-> NoError, chunk_size |-> 0, overlap |-> 0, step |-> 0,
             chunks |-> <<>>]

\* TranscriptProcessor.process_transcript: the split for the window it holds
split(text, chunk_size, overlap) ==
    [err |-> NoError, chunk_size |-> chunk_size, overlap |-> overlap,
     step |-> split_step(chunk_size, overlap),
     chunks |-> split_chunks(text, chunk_size, overlap)]

\* SummaryProcessor.process_transcript followed by the split, for a variant
\* that keeps the window it is handed
windower(text, chunk_size, overlap) ==
    LET w == validate_windowing(text, chunk_size, overlap)
    IN IF w.err # NoError
       THEN [NoWindow EXCEPT !.err = w.err, !.chunk_size = w.chunk_size,
                             !.overlap = w.overlap]
       ELSE split(text, w.chunk_size, w.overlap)

\* SummaryProcessor.process_transcript and TranscriptProcessor.process_transcript
\* up to the chunk list, as a job runs them
chunk_plan(t) ==
    LET w == validate_windowing(t.text, t.chunk_size, t.overlap)
        m == select_model(t.model, t.model_name, w.chunk_size, w.overlap)
    IN IF w.err # NoError
       THEN [NoWindow EXCEPT !.err = w.err, !.chunk_size = w.chunk_size,
                             !.overlap = w.overlap]
       ELSE IF m.err # NoError
       THEN [NoWindow EXCEPT !.err = m.err, !.chunk_size = m.chunk_size,
                             !.overlap = m.overlap]
       ELSE split(t.text, m.chunk_size, m.overlap)

program == <<started, dbInit, sessions, transcript_chunks, summary_processes,
             settings, jobs, active_clients, stopped>>

\* the application after startup_event, nothing submitted
AfterStartup ==
    /\ started = TRUE
    /\ dbInit = {"main.db", "processor.db"}
    /\ sessions = [id \in Ids |-> Absent]
    /\ transcript_chunks = [id \in Ids |-> Absent]
    /\ summary_processes = [id \in Ids |-> Absent]
    /\ settings = {}
    /\ jobs = [j \in JobIds |-> IdleJob]
    /\ active_clients = <<>>
    /\ stopped = FALSE

InitWindow ==
    /\ AfterStartup
    /\ call \in {[op |-> "windower", arg |-> a, out |-> None] : a \in WindowArgs}
            \cup {[op |-> "split", arg |-> a, out |-> None] :
                    a \in {x \in WindowArgs : x.chunk_size > 0 /\ x.overlap >= 0}}
            \cup {[op |-> "chunk_plan", arg |-> a, out |-> None] : a \in JobArgs}

apply_windower ==
    /\ call.op = "windower" /\ call.out = None
    /\ call' = [call EXCEPT !.out =
                   Some(windower(call.arg.text, call.arg.chunk_size, call.arg.overlap))]
    /\ UNCHANGED program

apply_split ==
    /\ call.op = "split" /\ call.out = None
    /\ call' = [call EXCEPT !.out =
                   Some(split(call.arg.text, call.arg.chunk_size, call.arg.overlap))]
    /\ UNCHANGED program

apply_chunk_plan ==
    /\ call.op = "chunk_plan" /\ call.out = None
    /\ call' = [call EXCEPT !.out = Some(chunk_plan(call.arg))]
    /\ UNCHANGED program

NextWindow ==
    \/ apply_windower
    \/ apply_split
    \/ apply_chunk_plan

SpecWindow == InitWindow /\ [][NextWindow]_vars

-----------------------------------------------------------------------------
(* Aggregation and the flattened view applied on their own *)

MaxChunks == 3

MaxSections == 3

TitleNotes == <<"N","o","t","e","s">>

TitleNotes2 == <<"N","o","t","e","s"," ","2">>

TitleNotes11 == <<"N","o","t","e","s"," ","1","1">>

TitleKeyPhrasesLower == <<"K","e","y"," ","p","h","r","a","s","e","s">>

TitleProsCons == <<"P","r","o","s"," ","&"," ","C","o","n","s">>

\* chunk summaries as a provider returns them
SummaryA ==
    SummaryResponse("Spanish", "Spanish - Conversation",
        [EmptyFixed EXCEPT !["VocabularyLearned"].blocks = <<<<"a", "v">>>>,
                           !["KeyPhrases"].blocks = <<<<"a", "k">>>>],
        [session_name |-> "Spanish",
         sections |-> <<Section(TitleNotes11, <<<<"a", "n1">>>>),
                        Section(TitleNotes, <<<<"a", "n2">>>>)>>])

SummaryB ==
    SummaryResponse("", "",
        [EmptyFixed EXCEPT !["VocabularyLearned"].blocks = <<<<"b", "v">>>>,
                           !["KeyPhrases"] =
                               Section(TitleKeyPhrasesLower, <<<<"b", "k">>>>)],
        [session_name |-> "",
         sections |-> <<Section(TitleNotes, <<<<"b", "n">>>>)>>])

SummaryC ==
    SummaryResponse("French", "French - Grammar",
        [EmptyFixed EXCEPT !["VocabularyLearned"].blocks =
                               <<<<"c", "v1">>, <<"c", "v2">>>>,
                           !["People"].blocks = <<<<"c", "p">>>>],
        [session_name |-> "French",
         sections |-> <<Section(TitleProsCons, <<<<"c", "n">>>>)>>])

SummarySamples == {SummaryA, SummaryB, SummaryC}

RECURSIVE SeqsUpTo(_, _)
\* the sequences over S of length 0..n
SeqsUpTo(S, n) ==
    IF n = 0 THEN {<<>>}
    ELSE LET shorter == SeqsUpTo(S, n - 1)
         IN shorter \cup {Append(q, x) : q \in shorter, x \in S}

\* the lists of successful chunk summaries of jobs of up to MaxChunks chunks
AggregateArgs == SeqsUpTo(SummarySamples, MaxChunks)

SectionTitles == {TitleNotes2, TitleNotes, FixedTitle("KeyPhrases"),
                  TitleKeyPhrasesLower}

\* documents a client stores through /save-session-summary
ClientDocs ==
    {[SessionName |-> "Edited",
      SessionNotes |-> [session_name |-> "Edited",
                        sections |-> [i \in 1..Len(titles) |->
                                        Section(titles[i], <<<<"e", str_int(i)>>>>)]]] :
        titles \in SeqsUpTo(SectionTitles, MaxSections)}

\* the documents get_summary transforms: stored by a job or by a client
TransformArgs == {aggregate(d) : d \in AggregateArgs \ {<<>>}} \cup ClientDocs

\* the data a poll returns for a job that ended with these successful
\* chunk summaries: process_transcript_background stores
\* json.dumps(final_summary), which update_process keeps as it is, and
\* get_summary decodes and flattens it
polled_document(all_json_data) ==
    transform(parse_result(json_dumps(aggregate(all_json_data))))

InitSummary ==
    /\ AfterStartup
    /\ call \in {[op |-> "aggregate", arg |-> a, out |-> None] : a \in AggregateArgs}
            \cup {[op |-> "transform", arg |-> a, out |-> None] : a \in TransformArgs}
            \cup {[op |-> "polled_document", arg |-> a, out |-> None] :
                     a \in AggregateArgs \ {<<>>}}

apply_aggregate ==
    /\ call.op = "aggregate" /\ call.out = None
    /\ call' = [call EXCEPT !.out = Some(aggregate(call.arg))]
    /\ UNCHANGED program

apply_transform ==
    /\ call.op = "transform" /\ call.out = None
    /\ call' = [call EXCEPT !.out = Some(transform(call.arg))]
    /\ UNCHANGED program

apply_polled_document ==
    /\ call.op = "polled_document" /\ call.out = None
    /\ call' = [call EXCEPT !.out = Some(polled_document(call.arg))]
    /\ UNCHANGED program

NextSummary ==
    \/ apply_aggregate
    \/ apply_transform
    \/ apply_polled_document

SpecSummary == InitSummary /\ [][NextSummary]_vars

-----------------------------------------------------------------------------
(* Process operations applied on their own *)

MaxTime == 2

\* a document as a job aggregates it and one as a client saves it
Documents == {aggregate(<<SummaryA>>), [edited |-> TRUE]}

\* records of every kind the store holds: PENDING, COMPLETED, FAILED, and one
\* inserted by update_session_summary, without status and created_at
StoredRecords ==
    { [NewProcess EXCEPT !.status = Some("PENDING"), !.created_at = Some(0),
                         !.start_time = Some(0)],
      [NewProcess EXCEPT !.status = Some("completed"), !.created_at = Some(0),
                         !.start_time = Some(1), !.end_time = Some("now"),
                         !.result = Some(json_dumps(aggregate(<<SummaryA>>)))],
      [NewProcess EXCEPT !.status = Some("failed"), !.created_at = Some(1),
                         !.start_time = Some(1), !.end_time = Some("now"),
                         !.error = Some(no_chunks_message)],
      [NewProcess EXCEPT !.result = Some(json_dumps([edited |-> TRUE]))] }

Stores ==
    {[id \in Ids |-> IF id = "s1" THEN r ELSE q] :
        r \in {Absent} \cup {Some(x) : x \in StoredRecords},
        q \in {Absent} \cup {Some(x) : x \in StoredRecords}}

\* the instants of two calls in a row
Instants == {<<a, b>> \in (1..MaxTime) \X (1..MaxTime) : a <= b}

CreateArgs ==
    {[procs |-> st, session_id |-> id, now |-> t] :
        st \in Stores, id \in Ids, t \in Instants}

\* a result handed to update_process: none, a dict, or its JSON text
ResultArgs ==
    {None} \cup {Some(d) : d \in Documents} \cup {Some(json_dumps(d)) : d \in Documents}

ErrorArgs == {None, Some(Msg("", 0)), Some(DriverMsg)}

UpdateArgs ==
    {[procs |-> st, session_id |-> "s1", status |-> status, result |-> r,
      error |-> e] :
        st \in {x \in Stores : x["s2"] = Absent},
        status \in {"completed", "failed", "processing"},
        r \in ResultArgs, e \in ErrorArgs}

InitStore ==
    /\ AfterStartup
    /\ call \in {[op |-> "create_process", arg |-> a, out |-> None] : a \in CreateArgs}
            \cup {[op |-> "update_process", arg |-> a, out |-> None] : a \in UpdateArgs}

\* create_process, called once and then once more on what it left
apply_create_process ==
    /\ call.op = "create_process"
    /\ \/ /\ call.out = None
          /\ call' = [call EXCEPT !.out =
                Some(<<create_process(call.arg.procs, call.arg.session_id,
                                      call.arg.now[1])>>)]
       \/ /\ call.out # None
          /\ Len(call.out[1]) = 1
          /\ call' = [call EXCEPT !.out =
                Some(Append(call.out[1],
                       create_process(call.out[1][1], call.arg.session_id,
                                      call.arg.now[2])))]
    /\ UNCHANGED program

apply_update_process ==
    /\ call.op = "update_process" /\ call.out = None
    /\ call' = [call EXCEPT !.out =
            Some(update_process(call.arg.procs, call.arg.session_id,
                                call.arg.status, call.arg.result, call.arg.error,
                                None))]
    /\ UNCHANGED program

NextStore ==
    \/ apply_create_process
    \/ apply_update_process

SpecStore == InitStore /\ [][NextStore]_vars

-----------------------------------------------------------------------------
(* Readings of the state used by the properties *)

\* the stored status, compared case-insensitively; "NONE" when there is none
Status(id) ==
    IF summary_processes[id] = Absent THEN "NONE"
    ELSE IF summary_processes[id][1].status = None THEN "NONE"
    ELSE status_upper(summary_processes[id][1].status[1])

Terminal(id) == Status(id) \in {"COMPLETED", "FAILED"}

\* no background task is scheduled or running
Quiescent == \A j \in JobIds : jobs[j].pc \in {"idle", "done"}

Applied(j) == {k \in 1..Len(jobs[j].updates) : ~jobs[j].updates[k].raised}

RECURSIVE Successes(_, _)
\* the indices from..Len(outcomes) whose call returned a summary, ascending
Successes(outcomes, from) ==
    IF from > Len(outcomes) THEN <<>>
    ELSE IF outcomes[from] = "summary"
    THEN <<from>> \o Successes(outcomes, from + 1)
    ELSE Successes(outcomes, from + 1)

SubmitFaults == {"none", "create_process", "save_transcript"}

\* the chunk a job's chunk summary was written from
ChunkOf(summary) == summary.VocabularyLearned.blocks[1][1]

\* a step of a background task of process id `id` that calls update_process
UpdateStepOf(id) ==
    \E j \in JobIds :
        /\ jobs[j].process_id = id
        /\ \/ \E nf \in BOOLEAN, uf \in BOOLEAN : bg_finish(j, nf, uf)
           \/ \E uf \in BOOLEAN : bg_handler(j, uf)

-----------------------------------------------------------------------------
(* Process tracker lifecycle *)

\* C1 as stated: once the record of an id is COMPLETED or FAILED, no step
\* changes any field of it.
C1_TerminalNeverMutated ==
    [][\A id \in Ids :
          Terminal(id) => summary_processes'[id] = summary_processes[id]]_vars

\* C1 amended: a COMPLETED or FAILED record is changed only by a submit of the
\* same id (create_process), by a background task of that id calling
\* update_process, by update_session_summary or by delete_session of that id;
\* polling and every other step leave it as it is.
C1_TerminalChangedOnlyByWriters ==
    [][\A id \in Ids :
          (Terminal(id) /\ summary_processes'[id] # summary_processes[id])
          => \/ \E t \in Requests, f \in SubmitFaults :
                    t.session_id = id /\ process_transcript_api(t, f)
             \/ UpdateStepOf(id)
             \/ \E summary \in Summaries : update_session_summary(id, summary)
             \/ delete_session(id)]_vars

\* a task wrote its terminal status and the record is PENDING again
C1_Witness ==
    \E j \in JobIds :
        /\ jobs[j].pc = "done"
        /\ Applied(j) # {}
        /\ Status(jobs[j].process_id) = "PENDING"

\* C2 as stated: a run makes exactly one status write and never a second
\* one, also when its first update_process call raises.
C2_ExactlyOneStatusWrite ==
    \A j \in JobIds :
        /\ Len(jobs[j].updates) <= 1
        /\ jobs[j].pc = "done" => Len(jobs[j].updates) = 1

\* C2 amended: a run calls update_process once all chunks were attempted or
\* right after a pre-flight failure; it calls it a second time, with status
\* failed, exactly when the first call was made in the try body and raised;
\* it never calls it a third time and at most one call takes effect.
C2_UpdateCalls ==
    \A j \in JobIds :
        LET u == jobs[j].updates
        IN /\ Len(u) <= 2
           /\ Len(u) = 2 => u[1].raised /\ u[2].status = "failed"
           /\ jobs[j].pc = "done" => Len(u) >= 1
           /\ jobs[j].pc = "handler" /\ Len(u) = 1 => u[1].raised
           /\ Cardinality(Applied(j)) <= 1
           /\ Len(u) >= 1 =>
                \/ jobs[j].i = Len(jobs[j].chunks) /\ jobs[j].chunks # <<>>
                \/ jobs[j].chunks = <<>> /\ jobs[j].outcomes = <<>>

\* a run whose first update_process call raised and that called it again
C2_Witness ==
    \E j \in JobIds :
        /\ jobs[j].pc = "done"
        /\ Len(jobs[j].updates) = 2
        /\ jobs[j].updates[1].raised

\* C3 as stated, in the form a finite run refutes: when every background
\* task has run to its end, no record is left PENDING.
C3_NoPendingWhenQuiescent ==
    Quiescent => \A id \in Ids : Status(id) # "PENDING"

\* C4 as stated: a run writes COMPLETED exactly when at least one chunk
\* succeeded, and FAILED only when none did.
C4_StatusMatchesSuccesses ==
    \A j \in JobIds : \A k \in Applied(j) :
        (jobs[j].updates[k].status = "completed") <=> (jobs[j].all_json_data # <<>>)

\* C5 as stated: the record of a run that ended COMPLETED with some failed
\* chunks has chunk_count equal to the number of chunks attempted.
C5_ChunkCountRecorded ==
    \A j \in JobIds :
        LET job == jobs[j]
            rec == summary_processes[job.process_id]
        IN ( /\ job.pc = "done"
             /\ rec # Absent
             /\ \E k \in 1..Len(job.outcomes) : job.outcomes[k] # "summary"
             /\ Status(job.process_id) = "COMPLETED"
             /\ rec[1].result = Some(json_dumps(aggregate(job.all_json_data))) )
           => rec[1].chunk_count = Some(Len(job.chunks))

-----------------------------------------------------------------------------
(* Pre-flight failures *)

\* a hosted request for whose provider no credential is stored
NoCredential(j) ==
    /\ jobs[j].pc \notin {"idle", "queued"}
    /\ jobs[j].transcript[1].model \in HostedProviders
    /\ jobs[j].transcript[1].model \notin settings

\* C6: a hosted run without a stored credential fails in the credential
\* check of process_transcript_background: no windowing, no provider call,
\* the only status it ever writes is failed, with the missing-key message,
\* and the record's chunk_count stays absent.
C6_MissingCredentialFailsBeforeChunks ==
    \A j \in JobIds :
        NoCredential(j) =>
            /\ jobs[j].pc \in {"handler", "done"}
            /\ jobs[j].error = Some(Raise("ValueError", Msg("API key not configured", 80)))
            /\ jobs[j].chunks = <<>>
            /\ jobs[j].requests = <<>>
            /\ jobs[j].outcomes = <<>>
            /\ \A k \in 1..Len(jobs[j].updates) : jobs[j].updates[k].status = "failed"
            /\ summary_processes[jobs[j].process_id] # Absent
                 => summary_processes[jobs[j].process_id][1].chunk_count = None

\* such a run has ended and its record is FAILED with the missing-key message
C6_Witness ==
    \E j \in JobIds :
        /\ NoCredential(j)
        /\ jobs[j].pc = "done"
        /\ Applied(j) # {}
        /\ Status(jobs[j].process_id) = "FAILED"
        /\ summary_processes[jobs[j].process_id][1].error
             = Some(Msg("API key not configured", 80))

\* C7 as stated: after a submit with chunk_size <= 0 or overlap < 0 the
\* record is FAILED, or a background task of that id is still to run.
C7_BadWindowEndsFailed ==
    [][\A t \in Requests :
          ((t.chunk_size <= 0 \/ t.overlap < 0) /\ process_transcript_api(t, "none"))
          => \/ Status(t.session_id)' = "FAILED"
             \/ \E j \in JobIds :
                    /\ jobs'[j].pc \notin {"idle", "done"}
                    /\ jobs'[j].process_id = t.session_id]_vars

-----------------------------------------------------------------------------
(* Chunk extractor *)

\* C8: a failed chunk call ends neither the loop nor the run: the run leaves
\* the loop only when every chunk was attempted, and a failed call adds
\* nothing to all_json_data.
C8_ChunkFailureDoesNotAbort ==
    \A j \in JobIds :
        /\ jobs[j].i <= Len(jobs[j].chunks)
        /\ (jobs[j].pc \in {"handler", "done"} /\ jobs[j].chunks # <<>>)
              => jobs[j].i = Len(jobs[j].chunks)
        /\ Len(jobs[j].all_json_data)
              = Cardinality({k \in 1..Len(jobs[j].outcomes) :
                                jobs[j].outcomes[k] = "summary"})

\* the first call of a run failed, its second call succeeded, and it ended
C8_Witness ==
    \E j \in JobIds :
        /\ jobs[j].pc = "done"
        /\ Len(jobs[j].outcomes) >= 2
        /\ jobs[j].outcomes[1] \in {"text", "raise"}
        /\ jobs[j].outcomes[2] = "summary"

\* C9: the calls are made for chunk 1, 2, ... in this order, and
\* all_json_data holds, in chunk order, one entry for each chunk whose call
\* returned a summary and none for the others.
C9_SuccessesInChunkOrder ==
    \A j \in JobIds :
        /\ Len(jobs[j].outcomes) = jobs[j].i
        /\ [k \in 1..Len(jobs[j].all_json_data) |->
                ChunkOf(jobs[j].all_json_data[k])]
              = Successes(jobs[j].outcomes, 1)

\* a run ended with two successes
C9_Witness ==
    \E j \in JobIds :
        /\ jobs[j].pc = "done"
        /\ Len(jobs[j].all_json_data) = 2
        /\ Len(jobs[j].chunks) = 2

-----------------------------------------------------------------------------
(* Windower *)

\* the function `op` was applied and returned
Returned(op) == call.op = op /\ call.out # None

\* a non-empty text, a positive width and a non-negative overlap
ValidWindowArgs ==
    /\ call.arg.text.len > 0
    /\ call.arg.chunk_size > 0
    /\ call.arg.overlap >= 0

Covers(chunks, len) ==
    \A off \in 0..(len - 1) :
        \E k \in 1..Len(chunks) : chunks[k][1] <= off /\ off < chunks[k][2]

\* chunk i covers [i*step, i*step + width) cut at len, for i*step < len
ChunksOf(len, width, step) ==
    [k \in 1..((len + step - 1) \div step) |->
        <<(k - 1) * step, Min((k - 1) * step + width, len)>>]

\* C11: for a non-empty text, a width > 0 and an overlap >= 0 the windower
\* raises nothing, the step it uses is at least 1, it returns finitely many
\* chunks (at most one per offset) and every offset of the text lies in a
\* chunk; the same holds for the split on its own and for every job that
\* reaches the split.
C11_StepPositiveAndCovers ==
    (\E op \in {"windower", "split", "chunk_plan"} : Returned(op)) /\ ValidWindowArgs
    => LET out == call.out[1]
       IN /\ call.op \in {"windower", "split"} => out.err = NoError
          /\ out.err = NoError =>
                /\ out.step >= 1
                /\ Len(out.chunks) >= 1
                /\ Len(out.chunks) <= call.arg.text.len
                /\ Covers(out.chunks, call.arg.text.len)

\* the split reset an overlap that was not below the width and returned
\* several chunks
C11_Witness ==
    /\ Returned("split")
    /\ call.arg.overlap >= call.arg.chunk_size
    /\ call.arg.chunk_size > 100
    /\ call.out[1].step = 100
    /\ Len(call.out[1].chunks) >= 2

NarrowNames == {Llama3, Phi4Upper}

-----------------------------------------------------------------------------
(* Aggregator *)

RECURSIVE BlocksOf(_, _)
\* the blocks of section `key` over the chunk summaries, in chunk order
BlocksOf(all_json_data, key) ==
    IF all_json_data = <<>> THEN <<>>
    ELSE Head(all_json_data)[key].blocks \o BlocksOf(Tail(all_json_data), key)

\* C15: for each fixed named section the blocks of the final document are
\* the concatenation, in chunk order, of that section's blocks over all
\* successful chunk summaries.
C15_FixedBlocksConcatenated ==
    Returned("aggregate") =>
        \A k \in 1..Len(FixedKeys) :
            call.out[1][FixedKeys[k]].blocks = BlocksOf(call.arg, FixedKeys[k])

\* three summaries with one vocabulary block each gave three blocks in order
C15_Witness ==
    /\ Returned("aggregate")
    /\ call.arg = <<SummaryA, SummaryB, SummaryA>>
    /\ call.out[1].VocabularyLearned.blocks
          = << <<"a", "v">>, <<"b", "v">>, <<"a", "v">> >>

\* the sections list the flattened view was built from
InSections == call.arg.SessionNotes.sections

\* the positions of the sections whose title normalises to `key`
SameKey(key) == {i \in 1..Len(InSections) : section_key(InSections[i].title) = key}

RECURSIVE MergedBlocks(_, _)
\* the blocks of the sections at positions from..Len whose title normalises
\* to `key`, in list order
MergedBlocks(key, from) ==
    IF from > Len(InSections) THEN <<>>
    ELSE (IF from \in SameKey(key) THEN InSections[from].blocks ELSE <<>>)
         \o MergedBlocks(key, from + 1)

\* C16 as stated: in the flattened view of a document aggregated from chunk
\* summaries, sections whose titles normalise to the same key are one entry,
\* holding the blocks of all of them.
C16_SameKeySectionsMerged ==
    (Returned("transform") /\ "MeetingNotes" \in DOMAIN call.arg) =>
        LET out == call.out[1]
            keys == {section_key(InSections[i].title) : i \in 1..Len(InSections)}
        IN /\ DOMAIN out.sections = keys
           /\ \A key \in keys : out.sections[key].blocks = MergedBlocks(key, 1)

\* C17 as stated: _section_order lists every key of the flattened view
\* once, in the order of introduction, and each key maps to the section it
\* was introduced for.
C17_OrderListsEachSectionOnce ==
    Returned("transform") =>
        LET out == call.out[1]
            order == out.section_order[1]
        IN /\ Len(order) = Len(InSections)
           /\ \A i \in 1..Len(order) : \A j \in 1..Len(order) :
                 i # j => order[i] # order[j]
           /\ DOMAIN out.sections = {order[i] : i \in 1..Len(order)}
           /\ \A i \in 1..Len(order) : out.sections[order[i]] = InSections[i]

\* the last non-empty value of a list of values, "" when there is none
LastNonEmpty(values) ==
    LET filled == {k \in 1..Len(values) : values[k] # ""}
    IN IF filled = {} THEN ""
       ELSE values[CHOOSE k \in filled : \A l \in filled : l <= k]

\* C18: SessionName and LanguageFocus of the final document are the values
\* of the last chunk summary, in chunk order, whose value is non-empty, and
\* empty only when every chunk's value is empty.
C18_LastNonEmptyScalarWins ==
    Returned("aggregate") =>
        /\ call.out[1].SessionName
              = LastNonEmpty([k \in 1..Len(call.arg) |-> call.arg[k].SessionName])
        /\ call.out[1].LanguageFocus
              = LastNonEmpty([k \in 1..Len(call.arg) |-> call.arg[k].LanguageFocus])

\* Spanish, then French, then an empty value: the final value is French
C18_Witness ==
    /\ Returned("aggregate")
    /\ call.arg = <<SummaryA, SummaryC, SummaryB>>
    /\ call.out[1].SessionName = "French"
    /\ call.out[1].LanguageFocus = "French - Grammar"

\* C19: aggregating no chunk summary raises nothing and gives a document
\* with every fixed section present and without blocks, and with an empty
\* notes section list.
C19_EmptyAggregation ==
    (Returned("aggregate") /\ call.arg = <<>>) =>
        LET out == call.out[1]
        IN /\ \A k \in 1..Len(FixedKeys) :
                 /\ FixedKeys[k] \in DOMAIN out
                 /\ out[FixedKeys[k]].blocks = <<>>
                 /\ out[FixedKeys[k]].title = FixedTitle(FixedKeys[k])
           /\ out.SessionNotes.sections = <<>>
           /\ out.MeetingNotes.sections = <<>>
           /\ out.SessionName = ""
           /\ out.LanguageFocus = ""

\* the aggregation of the empty list returned
C19_Witness ==
    /\ Returned("aggregate")
    /\ call.arg = <<>>
    /\ call.out[1].SessionNotes.session_name = ""

-----------------------------------------------------------------------------
(* Poll *)

\* the stored result is a text that decodes to a non-empty object
HasDocument(id) ==
    /\ summary_processes[id] # Absent
    /\ summary_processes[id][1].result # None
    /\ parse_result(summary_processes[id][1].result[1]) # EmptyDict

\* C20 as stated: the response follows from the stored status alone: a
\* PENDING record gives an in-progress status without data, a FAILED record
\* the stored error without data, a COMPLETED record non-null data, and data
\* is returned for no record that is not COMPLETED.
C20_PollFollowsStatus ==
    \A id \in Ids :
        LET r == poll(id)
        IN /\ Status(id) = "PENDING" => r.status = "processing" /\ r.data = None
           /\ Status(id) = "FAILED" =>
                 /\ r.status = "error"
                 /\ r.error = summary_processes[id][1].error
                 /\ r.data = None
           /\ Status(id) = "COMPLETED" => r.status = "completed" /\ r.data # None
           /\ r.data # None => Status(id) = "COMPLETED"

\* C20 amended: as stated for PENDING and FAILED records and for records
\* that are not COMPLETED; a COMPLETED record gives the flattened view of the
\* stored document as non-null data when the stored result decodes to a
\* non-empty object, and an error without data otherwise.
C20_PollFollowsStatusAndResult ==
    \A id \in Ids :
        LET r == poll(id)
        IN /\ Status(id) = "PENDING" => r.status = "processing" /\ r.data = None
           /\ Status(id) = "FAILED" =>
                 /\ r.status = "error"
                 /\ r.error = summary_processes[id][1].error
                 /\ r.data = None
           /\ (Status(id) = "COMPLETED" /\ HasDocument(id)) =>
                 /\ r.status = "completed"
                 /\ r.data = Some(transform(
                        parse_result(summary_processes[id][1].result[1])))
           /\ (Status(id) = "COMPLETED" /\ ~HasDocument(id)) =>
                 r.status = "error" /\ r.data = None
           /\ r.data # None => Status(id) = "COMPLETED"

\* a job ended COMPLETED and the poll of its id returns the flattened view
\* of its document, with the sections in order
C20_Witness ==
    \E j \in JobIds :
        /\ jobs[j].pc = "done"
        /\ Status(jobs[j].process_id) = "COMPLETED"
        /\ poll(jobs[j].process_id).code = 200
        /\ poll(jobs[j].process_id).data # None
        /\ Len(poll(jobs[j].process_id).data[1].section_order[1]) = Len(FixedKeys)

-----------------------------------------------------------------------------
(* Process records *)

Record(id) == summary_processes[id][1]

\* C21: the error of every process record is absent, or a text of at most
\* 1000 characters without line feed and without carriage return.
C21_ErrorCappedSingleLine ==
    \A id \in Ids :
        (summary_processes[id] # Absent /\ Record(id).error # None)
        => /\ Record(id).error[1].len <= 1000
           /\ Record(id).error[1].lf = 0
           /\ Record(id).error[1].cr = 0

\* a driver text of more than 1000 characters with line breaks was stored,
\* cut to 1000 characters
C21_Witness ==
    \E id \in Ids :
        /\ summary_processes[id] # Absent
        /\ Record(id).error # None
        /\ Record(id).error[1].text = <<"Processing error: ", "driver error">>
        /\ Record(id).error[1].len = 1000

\* C22: a COMPLETED record carries a result and an end_time.
C22_CompletedHasResultAndEndTime ==
    \A id \in Ids :
        Status(id) = "COMPLETED"
        => Record(id).result # None /\ Record(id).end_time # None

\* a job ended and its record is COMPLETED with the document it aggregated
C22_Witness ==
    \E j \in JobIds :
        /\ jobs[j].pc = "done"
        /\ Status(jobs[j].process_id) = "COMPLETED"
        /\ Record(jobs[j].process_id).result
             = Some(json_dumps(aggregate(jobs[j].all_json_data)))
        /\ Record(jobs[j].process_id).end_time # None

\* C23: a FAILED record carries a non-empty error text and an end_time.
C23_FailedHasErrorAndEndTime ==
    \A id \in Ids :
        Status(id) = "FAILED"
        => /\ Record(id).error # None
           /\ Record(id).error[1].len > 0
           /\ Record(id).end_time # None

\* a job whose chunk calls all failed ended and its record is FAILED with
\* the message of the empty result
C23_Witness ==
    \E j \in JobIds :
        /\ jobs[j].pc = "done"
        /\ jobs[j].outcomes # <<>>
        /\ jobs[j].all_json_data = <<>>
        /\ Status(jobs[j].process_id) = "FAILED"
        /\ Record(jobs[j].process_id).error = Some(no_chunks_message)
        /\ Record(jobs[j].process_id).end_time # None

\* the records a store holds
Records(procs) == {id \in Ids : procs[id] # Absent}

\* C24: create_process on an id without record inserts a PENDING record; on
\* an id with a record, whatever its status, it sets the status to PENDING
\* and clears result and error, and created_at stays as it was; no other
\* record changes and the id has one record; a second call in a row leaves
\* status, result, error and created_at as the first did.
C24_CreateProcessIdempotent ==
    Returned("create_process")
    => LET id == call.arg.session_id
           before == call.arg.procs
           once == call.out[1][1]
       IN /\ once[id] # Absent
          /\ once[id][1].status = Some("PENDING")
          /\ once[id][1].result = None
          /\ once[id][1].error = None
          /\ before[id] = Absent => once[id][1].created_at = Some(call.arg.now[1])
          /\ before[id] # Absent => once[id][1].created_at = before[id][1].created_at
          /\ \A other \in Ids \ {id} : once[other] = before[other]
          /\ Records(once) = Records(before) \cup {id}
          /\ Len(call.out[1]) = 2 =>
                LET twice == call.out[1][2]
                IN /\ twice[id] # Absent
                   /\ twice[id][1].status = once[id][1].status
                   /\ twice[id][1].result = once[id][1].result
                   /\ twice[id][1].error = once[id][1].error
                   /\ twice[id][1].created_at = once[id][1].created_at
                   /\ Records(twice) = Records(once)

\* create_process was called twice, at different instants, on the id of a
\* COMPLETED record created earlier
C24_Witness ==
    /\ Returned("create_process")
    /\ Len(call.out[1]) = 2
    /\ call.arg.now[1] < call.arg.now[2]
    /\ call.arg.procs[call.arg.session_id] # Absent
    /\ call.arg.procs[call.arg.session_id][1].status = Some("completed")
    /\ call.out[1][2][call.arg.session_id][1].created_at = Some(0)
    /\ call.out[1][2][call.arg.session_id][1].start_time = Some(call.arg.now[2])

\* the document a result argument stands for
DocumentOf(result) == IF is_str(result) THEN result.json ELSE result

\* C29: whether update_process is handed the document or its JSON text, the
\* stored result is the document encoded once: one decoding gives the
\* document itself, an object and not a text, which is also what the poll
\* reads from it.
C29_ResultEncodedOnce ==
    ( /\ Returned("update_process")
      /\ call.arg.result # None
      /\ call.arg.procs[call.arg.session_id] # Absent )
    => LET stored == call.out[1][call.arg.session_id][1].result
       IN /\ stored # None
          /\ ~is_str(json_loads(stored[1]))
          /\ json_loads(stored[1]) = DocumentOf(call.arg.result[1])
          /\ parse_result(stored[1]) = DocumentOf(call.arg.result[1])

\* a PENDING record was completed with the JSON text of an aggregated
\* document, as a job does
C29_Witness ==
    /\ Returned("update_process")
    /\ call.arg.status = "completed"
    /\ call.arg.result = Some(json_dumps(aggregate(<<SummaryA>>)))
    /\ call.arg.procs["s1"] # Absent
    /\ call.arg.procs["s1"][1].status = Some("PENDING")
    /\ call.out[1]["s1"][1].status = Some("completed")
    /\ json_loads(call.out[1]["s1"][1].result[1]) = aggregate(<<SummaryA>>)

-----------------------------------------------------------------------------
(* Scheduling of the chunk calls and of the jobs *)

\* the positions of active_clients that hold a client of job j
ClientsOf(j) == {k \in 1..Len(active_clients) : active_clients[k][1] = j}

\* C25: a job has at most one provider call in flight: at most one client
\* of it is tracked, it belongs to the call in flight, and that call is the
\* one for chunk i + 1 while the calls for chunks 1..i have all returned or
\* raised.
C25_OneCallInFlight ==
    \A j \in JobIds :
        /\ Cardinality(ClientsOf(j)) <= 1
        /\ \A k \in ClientsOf(j) :
              /\ jobs[j].pc = "inflight"
              /\ active_clients[k][2] = jobs[j].i + 1
        /\ jobs[j].pc = "inflight" =>
              /\ jobs[j].i < Len(jobs[j].chunks)
              /\ Len(jobs[j].outcomes) = jobs[j].i
              /\ Len(jobs[j].requests) = jobs[j].i
              /\ jobs[j].transcript[1].model = "ollama" => ClientsOf(j) # {}

\* the second call of a job is in flight after its first came back, and
\* its client is the only one tracked
C25_Witness ==
    \E j \in JobIds :
        /\ jobs[j].pc = "inflight"
        /\ jobs[j].i = 1
        /\ Len(jobs[j].outcomes) = 1
        /\ active_clients = << <<j, 2>> >>

\* a step of the background task in slot j
JobStep(j) ==
    \/ bg_start(j)
    \/ chunk_begin(j)
    \/ \E outcome \in {"summary", "text", "unexpected", "raise"},
          name \in SessionNames, nreq \in 1..(1 + result_retries) :
          chunk_end(j, outcome, name, nreq)
    \/ \E nf \in BOOLEAN, uf \in BOOLEAN : bg_finish(j, nf, uf)
    \/ \E uf \in BOOLEAN : bg_handler(j, uf)

\* the tracked clients that are not of job j, in order
ClientsNotOf(clients, j) == SelectSeq(clients, LAMBDA c : c[1] # j)

\* C26: a step of a job leaves the process record, the session and the
\* transcript document of every other id as they are, and the state and the
\* tracked clients of every other job; the terminal status it writes and
\* the result are computed from the outcomes of its own chunk calls.
C26_JobsIndependent ==
    [][\A j \in JobIds :
          (jobs'[j] # jobs[j] /\ JobStep(j)) =>
            /\ \A id \in Ids \ {jobs[j].process_id} :
                  /\ summary_processes'[id] = summary_processes[id]
                  /\ sessions'[id] = sessions[id]
                  /\ transcript_chunks'[id] = transcript_chunks[id]
            /\ \A other \in JobIds \ {j} : jobs'[other] = jobs[other]
            /\ ClientsNotOf(active_clients', j) = ClientsNotOf(active_clients, j)
            /\ [k \in 1..Len(jobs'[j].all_json_data) |->
                    ChunkOf(jobs'[j].all_json_data[k])]
                  = Successes(jobs'[j].outcomes, 1)
            /\ ( /\ Applied(j) = {}
                 /\ (Applied(j) # {})'
                 /\ summary_processes[jobs[j].process_id] # Absent )
               => LET rec == summary_processes'[jobs[j].process_id][1]
                      own == Successes(jobs[j].outcomes, 1)
                  IN /\ rec.status = Some(IF own # <<>> /\ jobs[j].error = None
                                           THEN "completed" ELSE "failed")
                     /\ rec.status = Some("completed") =>
                           rec.result = Some(json_dumps(aggregate(jobs[j].all_json_data)))]_vars

\* two jobs of different ids ran side by side and ended, one COMPLETED and
\* one FAILED
C26_Witness ==
    \E j \in JobIds, other \in JobIds :
        /\ jobs[j].process_id # jobs[other].process_id
        /\ jobs[j].pc = "done" /\ jobs[other].pc = "done"
        /\ Applied(j) # {} /\ Applied(other) # {}
        /\ Status(jobs[j].process_id) = "COMPLETED"
        /\ Status(jobs[other].process_id) = "FAILED"

\* C27 as stated: a job that was in its chunk loop when shutdown_event ran
\* never writes a terminal status afterwards.
C27_InterruptedJobWritesNothing ==
    \A j \in JobIds :
        jobs[j].interrupted => \A k \in 1..Len(jobs[j].updates) : jobs[j].updates[k].raised

\* a background task of process id `id` is scheduled or running
Running(id) ==
    \E j \in JobIds :
        /\ jobs[j].process_id = id
        /\ jobs[j].pc \in {"queued", "chunks", "inflight", "handler"}

\* C28: when a submit is acknowledged, the record of its id is PENDING, the
\* poll of the id reports in-progress and the task it scheduled has made no
\* provider call; while a task of the id is scheduled or running, a PENDING
\* record stays PENDING and its poll reports in-progress over every step
\* that changes the record and is neither a terminal update by a task of
\* that id nor a deletion of the session.
C28_PendingFromSubmitToTerminalUpdate ==
    [][/\ \A t \in Requests :
            ( /\ save_transcript_error(t) = "accepted"
              /\ \E j \in JobIds : jobs[j].pc = "idle" /\ jobs'[j].pc = "queued"
              /\ process_transcript_api(t, "none") )
            => /\ Status(t.session_id)' = "PENDING"
               /\ poll(t.session_id)' = Response(202, "processing", None, None)
               /\ \E j \in JobIds :
                     /\ jobs[j].pc = "idle"
                     /\ jobs'[j].pc = "queued"
                     /\ jobs'[j].process_id = t.session_id
                     /\ jobs'[j].requests = <<>>
       /\ \A id \in Ids :
            ( /\ Running(id)
              /\ Status(id) = "PENDING"
              /\ summary_processes'[id] # summary_processes[id]
              /\ ~delete_session(id)
              /\ ~UpdateStepOf(id) )
            => /\ Status(id)' = "PENDING"
               /\ poll(id)' = Response(202, "processing", None, None)]_vars

\* a submit of an id whose earlier run had ended was acknowledged: the
\* record is PENDING again and the poll reports in-progress
C28_Witness ==
    \E j \in JobIds :
        /\ jobs[j].pc = "queued"
        /\ Status(jobs[j].process_id) = "PENDING"
        /\ Record(jobs[j].process_id).end_time # None
        /\ poll(jobs[j].process_id) = Response(202, "processing", None, None)

\* C30: a poll writes nothing. After every step, a record that is COMPLETED
\* has its result and one that is FAILED has its error, which is what the
\* poll of it returns; a PENDING record polls as in-progress without data.
\* A terminal update changes the record in one step from what the poll read
\* before to the whole terminal record: COMPLETED with a document and an
\* end_time, or FAILED with an error.
C30_PollSeesWholeRecord ==
    [][/\ (\E id \in Ids : get_summary(id))
            => UNCHANGED <<sessions, transcript_chunks, summary_processes, jobs>>
       /\ \A id \in Ids :
            /\ Status(id)' = "COMPLETED" => Record(id)'.result # None
            /\ Status(id)' = "FAILED" =>
                  /\ Record(id)'.error # None
                  /\ poll(id)' = Response(400, "error", None, Record(id)'.error)
            /\ Status(id)' = "PENDING" =>
                  poll(id)' = Response(202, "processing", None, None)
            /\ (summary_processes'[id] # summary_processes[id] /\ UpdateStepOf(id))
               => \/ /\ Status(id)' = "COMPLETED"
                     /\ HasDocument(id)'
                     /\ Record(id)'.end_time # None
                  \/ /\ Status(id)' = "FAILED"
                     /\ Record(id)'.error # None
                     /\ Record(id)'.end_time # None]_vars

\* a job wrote its terminal update and the poll of its id returns the
\* stored error; the other job is still running
C30_Witness ==
    \E j \in JobIds, other \in JobIds :
        /\ jobs[j].pc = "done"
        /\ Applied(j) # {}
        /\ jobs[other].pc = "inflight"
        /\ Status(jobs[j].process_id) = "FAILED"
        /\ poll(jobs[j].process_id)
             = Response(400, "error", None, Record(jobs[j].process_id).error)

-----------------------------------------------------------------------------
(* Credential handles *)

\* the handles a job reads a credential from: processor.db in
\* process_transcript_background, the module-level db of
\* transcript_processor in TranscriptProcessor.process_transcript
CredentialHandles == {"processor.db", "transcript_processor.db"}

\* C31 as stated: when a job starts, every handle it reads a credential
\* from has been initialised by the startup event, so a hosted job on
\* non-empty text whose credential is stored passes pre-flight and model
\* selection and enters the chunk loop with at least one chunk to attempt.
C31_CredentialHandlesInitialized ==
    [][\A j \in JobIds :
         (/\ jobs[j].pc = "queued"
          /\ jobs'[j].pc # "queued"
          /\ bg_start(j)
          /\ jobs[j].transcript[1].model \in HostedProviders
          /\ jobs[j].transcript[1].model \in settings
          /\ jobs[j].transcript[1].text.len > 0
          /\ ~jobs[j].transcript[1].text.blank)
         => /\ CredentialHandles \subseteq dbInit
            /\ jobs'[j].pc = "chunks"
            /\ jobs'[j].chunks # <<>>]_vars

-----------------------------------------------------------------------------
(* Unsupported provider *)

\* a started job whose provider identifier is none of the supported ones
Unsupported(j) ==
    /\ jobs[j].pc \notin {"idle", "queued"}
    /\ jobs[j].transcript[1].model \notin SupportedProviders

\* C32: a job with an unsupported provider identifier fails in model
\* selection with the ValueError naming that identifier: it has no chunk,
\* made no provider request, the only status it ever writes is failed, and
\* when its update reaches an existing record the record becomes FAILED
\* with the message that names the provider.
C32_UnsupportedProviderFails ==
    [][\A j \in JobIds :
         /\ Unsupported(j)' =>
              /\ jobs'[j].pc \in {"handler", "done"}
              /\ jobs'[j].error = Some(Raise("ValueError",
                      unsupported_provider(jobs'[j].transcript[1].model)))
              /\ jobs'[j].chunks = <<>>
              /\ jobs'[j].requests = <<>>
              /\ jobs'[j].outcomes = <<>>
              /\ \A k \in 1..Len(jobs'[j].updates) :
                    jobs'[j].updates[k].status = "failed"
         /\ (/\ jobs[j].pc = "handler"
             /\ jobs'[j].pc = "done"
             /\ Unsupported(j)
             /\ Applied(j)' # {}
             /\ summary_processes[jobs[j].process_id] # Absent)
            => /\ Status(jobs[j].process_id)' = "FAILED"
               /\ Record(jobs[j].process_id)'.error # None
               /\ Record(jobs[j].process_id)'.error[1].text
                    = <<"Unsupported model provider: ", jobs[j].transcript[1].model>>]_vars

\* a job submitted for "gemini" has ended and its record is FAILED with the
\* message naming gemini
C32_Witness ==
    \E j \in JobIds :
        /\ Unsupported(j)
        /\ jobs[j].transcript[1].model = "gemini"
        /\ jobs[j].pc = "done"
        /\ jobs[j].chunks = <<>>
        /\ Applied(j) # {}
        /\ Status(jobs[j].process_id) = "FAILED"
        /\ Record(jobs[j].process_id).error
             = Some(unsupported_provider("gemini"))

-----------------------------------------------------------------------------
(* Shape of the process records *)

\* C33 as stated: in every reachable state a COMPLETED record has no error
\* and a FAILED record has no result.
C33_ResultAndErrorExclusive ==
    \A id \in Ids :
        summary_processes[id] # Absent =>
            /\ Status(id) = "COMPLETED" => Record(id).error = None
            /\ Status(id) = "FAILED" => Record(id).result = None


\* C34 as stated: in every reachable state a PENDING record has no result,
\* no error and no end_time.
C34_PendingRecordIsBare ==
    \A id \in Ids :
        (summary_processes[id] # Absent /\ Status(id) = "PENDING") =>
            /\ Record(id).result = None
            /\ Record(id).error = None
            /\ Record(id).end_time = None


\* C35 as stated: in every reachable state every record of the process
\* store has a status, and the status is PENDING, COMPLETED or FAILED when
\* compared case-insensitively.
C35_EveryRecordHasStatus ==
    \A id \in Ids :
        summary_processes[id] # Absent =>
            /\ Record(id).status # None
            /\ status_upper(Record(id).status[1]) \in {"PENDING", "COMPLETED", "FAILED"}

-----------------------------------------------------------------------------
(* Updates without a record *)

\* the last update_process call a job noted
LastUpdate(job) == job.updates[Len(job.updates)]

\* C36: a step in which a job's update_process call returns while the store
\* has no record for the job's id leaves the whole process store as it was,
\* so there is still no record for that id; the call matched nothing and
\* the job ends without an error.
C36_UpdateNeverCreates ==
    [][\A j \in JobIds :
         (/\ jobs'[j] # jobs[j]
          /\ Len(jobs'[j].updates) > Len(jobs[j].updates)
          /\ ~LastUpdate(jobs'[j]).raised
          /\ summary_processes[jobs[j].process_id] = Absent)
         => /\ summary_processes' = summary_processes
            /\ summary_processes'[jobs[j].process_id] = Absent
            /\ ~LastUpdate(jobs'[j]).matched
            /\ jobs'[j].pc = "done"]_vars

\* a job made its terminal update after delete_session removed the session
\* and the record: the update matched nothing and there is no record
C36_Witness ==
    \E j \in JobIds :
        /\ jobs[j].pc = "done"
        /\ Len(jobs[j].updates) = 1
        /\ ~LastUpdate(jobs[j]).raised
        /\ ~LastUpdate(jobs[j]).matched
        /\ sessions[jobs[j].process_id] = Absent
        /\ summary_processes[jobs[j].process_id] = Absent

-----------------------------------------------------------------------------
(* Blocks from the chunk summaries to the polled document *)

\* the sections of one chunk summary: the fixed ones and the nested ones
ChunkSections(summary) ==
    [k \in 1..Len(FixedKeys) |-> summary[FixedKeys[k]]]
        \o summary.SessionNotes.sections

\* how often block b occurs in the sections of the chunk summaries
ChunkBlockCount(all_json_data, b) ==
    Cardinality({<<n, s, p>> \in (1..Len(all_json_data)) \X (1..(Len(FixedKeys) + MaxSections))
                                   \X (1..MaxSections) :
        LET secs == ChunkSections(all_json_data[n])
        IN /\ s <= Len(secs)
           /\ p <= Len(secs[s].blocks)
           /\ secs[s].blocks[p] = b})

\* how often block b occurs in the flattened sections of a polled document
FlatBlockCount(data, b) ==
    Cardinality({kp \in (DOMAIN data.sections) \X (1..(MaxChunks * MaxSections)) :
        /\ kp[2] <= Len(data.sections[kp[1]].blocks)
        /\ data.sections[kp[1]].blocks[kp[2]] = b})

\* C37 as stated: every block of every fixed section and of every nested
\* notes section of every successful chunk is in exactly one flattened
\* section of the polled document: it occurs there as often as the chunks
\* delivered it.
C37_NoBlockLost ==
    Returned("polled_document") =>
        \A b \in {<<t, l>> : t \in {"a", "b", "c"},
                             l \in {"v", "k", "n", "n1", "n2", "v1", "v2", "p"}} :
            FlatBlockCount(call.out[1], b) = ChunkBlockCount(call.arg, b)

-----------------------------------------------------------------------------
(* DatabaseManager.initialize at startup *)

MAX_RETRIES == 3

RETRY_DELAY_SECONDS == 2

\* the calls of one attempt that can raise: the client and the database
\* object, the ping, and the five create_index calls
InitStages == 7

\* variant that waits the same time after every failure
retry_delay_fixed(attempt) == RETRY_DELAY_SECONDS

\* delay = RETRY_DELAY_SECONDS * attempt
retry_delay(attempt) == RETRY_DELAY_SECONDS * attempt

\* initialize() of one handle when it is called: the for loop is entered
\* with attempt 1 and no call of the attempt made. failures lists, for each
\* failed attempt, the call that raised; waits the delays slept; error the
\* exception initialize raised
NewRun(handle) ==
    [op |-> "initialize", arg |-> handle,
     out |-> [pc |-> "try", attempt |-> 1, attempts |-> 1, stage |-> 0,
              failures |-> <<>>, waits |-> <<>>, error |-> None]]

\* startup_event calls db.initialize() first
InitInitialize ==
    /\ started = FALSE
    /\ dbInit = {}
    /\ sessions = [id \in Ids |-> Absent]
    /\ transcript_chunks = [id \in Ids |-> Absent]
    /\ summary_processes = [id \in Ids |-> Absent]
    /\ settings = {}
    /\ jobs = [j \in JobIds |-> IdleJob]
    /\ active_clients = <<>>
    /\ stopped = FALSE
    /\ call = NewRun("main.db")

\* the next call in the try body: it returns (ok) or raises. self.db is
\* assigned by the first call; after the last one initialize returns. The
\* except block sleeps when attempt < MAX_RETRIES and re-raises otherwise
initialize_try(ok) ==
    /\ call.op = "initialize"
    /\ call.out.pc = "try"
    /\ LET run == call.out
       IN IF ok
          THEN /\ call' = [call EXCEPT !.out =
                    [run EXCEPT !.stage = @ + 1,
                                !.pc = IF run.stage + 1 = InitStages
                                       THEN "returned" ELSE "try"]]
               /\ dbInit' = dbInit \cup {call.arg}
          ELSE /\ call' = [call EXCEPT !.out =
                    [run EXCEPT !.failures = Append(@, run.stage + 1),
                                !.pc = IF run.attempt < MAX_RETRIES
                                       THEN "sleep" ELSE "raised",
                                !.error = IF run.attempt < MAX_RETRIES
                                          THEN None ELSE Some(run.stage + 1)]]
               /\ UNCHANGED dbInit
    /\ UNCHANGED <<started, sessions, transcript_chunks, summary_processes,
                   settings, jobs, active_clients, stopped>>

\* await asyncio.sleep(delay) returns and the for loop goes on: the next
\* attempt, or the end of the loop when the range is used up
initialize_sleep ==
    /\ call.op = "initialize"
    /\ call.out.pc = "sleep"
    /\ LET run == call.out
       IN call' = [call EXCEPT !.out =
            IF run.attempt + 1 > MAX_RETRIES
            THEN [run EXCEPT !.waits = Append(@, retry_delay(run.attempt)),
                             !.pc = "returned"]
            ELSE [run EXCEPT !.waits = Append(@, retry_delay(run.attempt)),
                             !.attempt = @ + 1,
                             !.attempts = @ + 1,
                             !.stage = 0,
                             !.pc = "try"]]
    /\ UNCHANGED <<started, dbInit, sessions, transcript_chunks, summary_processes,
                   settings, jobs, active_clients, stopped>>

\* startup_event after db.initialize() returned: processor.initialize_db(),
\* and after that returned the application has started
startup_continue ==
    /\ call.op = "initialize"
    /\ call.out.pc = "returned"
    /\ ~started
    /\ IF call.arg = "main.db"
       THEN /\ call' = NewRun("processor.db")
            /\ UNCHANGED started
       ELSE /\ started' = TRUE
            /\ UNCHANGED call
    /\ UNCHANGED <<dbInit, sessions, transcript_chunks, summary_processes,
                   settings, jobs, active_clients, stopped>>

NextInitialize ==
    \/ \E ok \in BOOLEAN : initialize_try(ok)
    \/ initialize_sleep
    \/ startup_continue

SpecInitialize == InitInitialize /\ [][NextInitialize]_vars

\* C38: initialize makes at most MAX_RETRIES attempts; every attempt but
\* the last one made has failed, so nothing is attempted after a success;
\* the k-th failed attempt that is followed by another one is followed by a
\* wait of RETRY_DELAY_SECONDS * k and by no other; initialize raises only
\* after MAX_RETRIES failures, it raises the last of them, and has then
\* slept MAX_RETRIES - 1 times and not after the last failure.
C38_InitializeRetries ==
    call.op = "initialize" =>
        LET run == call.out
        IN /\ run.attempts \in 1..MAX_RETRIES
           /\ run.waits = [k \in 1..Len(run.waits) |-> RETRY_DELAY_SECONDS * k]
           /\ run.pc \in {"try", "returned"} =>
                 /\ Len(run.failures) = run.attempts - 1
                 /\ Len(run.waits) = run.attempts - 1
           /\ run.pc = "returned" =>
                 /\ run.stage = InitStages
                 /\ run.error = None
                 /\ call.arg \in dbInit
           /\ run.pc = "sleep" =>
                 /\ Len(run.failures) = run.attempts
                 /\ Len(run.waits) = run.attempts - 1
                 /\ run.attempts < MAX_RETRIES
           /\ run.pc = "raised" =>
                 /\ run.attempts = MAX_RETRIES
                 /\ Len(run.failures) = MAX_RETRIES
                 /\ Len(run.waits) = MAX_RETRIES - 1
                 /\ run.error = Some(run.failures[MAX_RETRIES])
           /\ run.pc # "raised" => run.error = None

\* initialize of the second handle raised after three failed attempts, the
\* second of them in the ping, and waits of 2 and 4 seconds
C38_Witness ==
    /\ call.op = "initialize"
    /\ call.arg = "processor.db"
    /\ call.out.pc = "raised"
    /\ call.out.attempts = 3
    /\ call.out.failures[2] = 2
    /\ call.out.waits = <<2, 4>>
    /\ ~started

-----------------------------------------------------------------------------
(* Tracked clients *)

\* the call of job j for a chunk through chat_ollama_model is running
LocalCallRunning(j) ==
    /\ jobs[j].pc = "inflight"
    /\ ~jobs[j].cancelled
    /\ jobs[j].transcript[1].model = "ollama"

\* C39: every client in active_clients is the client of a local-variant
\* call that is running, the one for the chunk its job is at, and is listed
\* once; so when no local-variant call is running the list is empty. This
\* holds with two jobs, after cleanup and after a cancellation.
C39_ClientsOnlyWhileInFlight ==
    /\ \A k \in 1..Len(active_clients) :
          LET c == active_clients[k]
          IN /\ LocalCallRunning(c[1])
             /\ c[2] = jobs[c[1]].i + 1
             /\ \A l \in 1..Len(active_clients) : active_clients[l] = c => l = k
    /\ (\A j \in JobIds : ~LocalCallRunning(j)) => active_clients = <<>>

\* one job's call has returned a text that failed validation and its
\* client is gone, while the other job's call is running and its client is
\* the only one listed
C39_Witness ==
    \E j \in JobIds, o \in JobIds :
        /\ j # o
        /\ jobs[o].pc = "chunks"
        /\ jobs[o].outcomes = <<"text">>
        /\ LocalCallRunning(j)
        /\ active_clients = << <<j, 1>> >>
====
